---- MODULE Spec2Model ----
(***************************************************************************)
(* A model of the rawwr tree-walking interpreter: runtime values,          *)
(* environments, the resolver pass and the interpreter's visitors.         *)
(* The heap (Rc<RefCell<..>> cells) is modelled by sequences indexed by     *)
(* allocation order; a reference is the index of the cell.                 *)
(***************************************************************************)
EXTENDS Integers, Sequences, FiniteSets, TLC

VARIABLES program,   \* the statements handed to the resolver and interpreter
          phase,     \* "resolve", "unresolved", "interpret", "done", "error", "panicked"
          index,     \* position of Interpreter::interpret in the statement list
          sys_time,  \* what SystemTime::now() yields, in milliseconds
          locals,    \* Interpreter.locals: node identity -> distance
          st,        \* the interpreter, its heap and the history of the run
          scanner,   \* the Scanner of the scanning run
          scanned,   \* what Scanner::tokenize returned
          parsed     \* what Parser::parse returned

vars == <<program, phase, index, sys_time, locals, st, scanner, scanned, parsed>>

----------------------------------------------------------------------------
(* token.rs *)

Token(token_type, lexeme, line) ==
    [token_type |-> token_type, lexeme |-> lexeme, line |-> line]

Ident(lexeme, line) == Token("Identifier", lexeme, line)

NoToken == Token("None", "", 0)

----------------------------------------------------------------------------
(* object.rs: the Object enum.  Func, Class, Instance and Native hold the  *)
(* index of the shared cell they point to.                                 *)
(* An Object is a record: t the variant, v the number of a Num or the cell   *)
(* of a Func, Class, Instance, Native, x the text of a Str, b the truth    *)
(* value of a Bool (each field has a default in the other variants).       *)

Object(t, v, x, b) == [t |-> t, v |-> v, x |-> x, b |-> b]
ObjectNum(n) == Object("Num", n, "", FALSE)
ObjectStr(x) == Object("Str", 0, x, FALSE)
ObjectBool(b) == Object("Bool", 0, "", b)
ObjectNil == Object("Nil", 0, "", FALSE)
ObjectFunc(f) == Object("Func", f, "", FALSE)
ObjectClass(c) == Object("Class", c, "", FALSE)
ObjectInstance(i) == Object("Instance", i, "", FALSE)
ObjectNative(n) == Object("Native", n, "", FALSE)
ObjectArithmeticError == Object("ArithmeticError", 0, "", FALSE)
ObjectDivByZeroError == Object("DivByZeroError", 0, "", FALSE)

EmptyMap == [x \in {} |-> ObjectNil]

Insert(map, key, value) ==
    [x \in (DOMAIN map) \cup {key} |-> IF x = key THEN value ELSE map[x]]

----------------------------------------------------------------------------
(* error.rs: LoxResult, plus the two ways a call can end that are not a    *)
(* LoxResult: Ok and a Rust panic (unwrap on None), which ends the process. *)

Ok(v, s) == [k |-> "Ok", v |-> v, token |-> NoToken, message |-> "", s |-> s]

RuntimeError(token, message, s) ==
    [k |-> "RuntimeError", v |-> ObjectNil, token |-> token, message |-> message, s |-> s]

SystemError(message, s) ==
    [k |-> "SystemError", v |-> ObjectNil, token |-> NoToken, message |-> message, s |-> s]

ReturnValue(v, s) ==
    [k |-> "ReturnValue", v |-> v, token |-> NoToken, message |-> "", s |-> s]

Panic(s) == [k |-> "Panic", v |-> ObjectNil, token |-> NoToken, message |-> "", s |-> s]

----------------------------------------------------------------------------
(* environment.rs.  envs is the heap of Environment cells; 0 is None.      *)

\* a frame whose parent link is the cell allocated after its parent
EnvironmentNextCell(enclosing) ==
    [values |-> EmptyMap, enclosing |-> IF enclosing = 0 THEN 0 ELSE enclosing + 1]

Environment(enclosing) == [values |-> EmptyMap, enclosing |-> enclosing]

EnvDefine(env, name, value) == [env EXCEPT !.values = Insert(@, name, value)]

RECURSIVE EnvGetAt(_, _, _, _)
\* get_at recurses on self, not on self.enclosing; unwrap panics on a miss.
\* `frame` is the cell whose values were consulted.
EnvGetAt(envs, e, distance, name) ==
    IF distance = 0
    THEN IF name \in DOMAIN envs[e].values
         THEN [k |-> "Ok", v |-> envs[e].values[name], frame |-> e]
         ELSE [k |-> "Panic", v |-> ObjectNil, frame |-> e]
    ELSE EnvGetAt(envs, e, distance - 1, name)

RECURSIVE EnvGet(_, _, _)
EnvGet(envs, e, name) ==
    IF name.lexeme \in DOMAIN envs[e].values
    THEN [k |-> "Ok", v |-> envs[e].values[name.lexeme], frame |-> e]
    ELSE IF envs[e].enclosing # 0
         THEN EnvGet(envs, envs[e].enclosing, name)
         ELSE [k |-> "RuntimeError", v |-> ObjectNil, frame |-> e]

\* an assign that writes the frame it is called on, whatever that frame holds
EnvAssignHere(envs, e, name, value) ==
    [k |-> "Ok", envs |-> [envs EXCEPT ![e].values = Insert(@, name.lexeme, value)],
     frame |-> e]

RECURSIVE EnvAssign(_, _, _, _)
EnvAssign(envs, e, name, value) ==
    IF name.lexeme \in DOMAIN envs[e].values
    THEN [k |-> "Ok", envs |-> [envs EXCEPT ![e].values[name.lexeme] = value], frame |-> e]
    ELSE IF envs[e].enclosing # 0
         THEN EnvAssign(envs, envs[e].enclosing, name, value)
         ELSE [k |-> "RuntimeError", envs |-> envs, frame |-> e]

RECURSIVE Ancestor(_, _, _)
\* the frame `distance` parent links above e (0 when the chain is shorter)
Ancestor(envs, e, distance) ==
    IF distance = 0 \/ e = 0 THEN e ELSE Ancestor(envs, envs[e].enclosing, distance - 1)

\* assign_at is called by the interpreter but its body is not in environment.rs:
\* it writes the binding in the frame `distance` links up the chain
EnvAssignAt(envs, e, distance, name, value) ==
    LET target == Ancestor(envs, e, distance)
    IN IF target = 0
       THEN [k |-> "Panic", envs |-> envs, frame |-> 0]
       ELSE [k |-> "Ok",
             envs |-> [envs EXCEPT ![target].values = Insert(@, name.lexeme, value)],
             frame |-> target]

\* the number of parent links from frame e to frame target (-1: not on the
\* chain; a walk of more links than there are frames has met a frame twice)
Hops(envs, e, target) ==
    LET RECURSIVE Walk(_, _)
        Walk(frame, links) ==
            LET Up(up) == IF up < 0 THEN -1 ELSE up + 1
            IN IF frame = 0 \/ links > Len(envs) THEN -1
               ELSE IF frame = target THEN 0
               ELSE Up(Walk(envs[frame].enclosing, links + 1))
    IN Walk(e, 0)

----------------------------------------------------------------------------
(* expr.rs and stmt.rs: the AST.  `id` is the identity of the node (the   *)
(* address of its Rc), the key of the resolver's side table.  An Option    *)
(* is a sequence of length 0 or 1.                                         *)

AssignExpr(id, name, value) == [e |-> "Assign", id |-> id, name |-> name, value |-> value]
BinaryExpr(left, operator, right) ==
    [e |-> "Binary", left |-> left, operator |-> operator, right |-> right]
CallExpr(callee, paren, arguments) ==
    [e |-> "Call", callee |-> callee, paren |-> paren, arguments |-> arguments]
GetExpr(object, name) == [e |-> "Get", object |-> object, name |-> name]
GroupingExpr(expression) == [e |-> "Grouping", expression |-> expression]
LiteralExpr(value) == [e |-> "Literal", value |-> value]
LogicalExpr(left, operator, right) ==
    [e |-> "Logical", left |-> left, operator |-> operator, right |-> right]
SetExpr(object, name, value) ==
    [e |-> "Set", object |-> object, name |-> name, value |-> value]
SuperExpr(id, keyword, method) ==
    [e |-> "Super", id |-> id, keyword |-> keyword, method |-> method]
ThisExpr(id, keyword) == [e |-> "This", id |-> id, keyword |-> keyword]
UnaryExpr(operator, right) == [e |-> "Unary", operator |-> operator, right |-> right]
VariableExpr(id, name) == [e |-> "Variable", id |-> id, name |-> name]

BlockStmt(statements) == [s |-> "Block", statements |-> statements]
ClassStmt(name, superclass, methods) ==
    [s |-> "Class", name |-> name, superclass |-> superclass, methods |-> methods]
ExpressionStmt(expression) == [s |-> "Expression", expression |-> expression]
FunctionStmt(id, name, params, body) ==
    [s |-> "Function", id |-> id, name |-> name, params |-> params, body |-> body]
IfStmt(condition, then_branch, else_branch) ==
    [s |-> "If", condition |-> condition, then_branch |-> then_branch,
     else_branch |-> else_branch]
PrintStmt(expression) == [s |-> "Print", expression |-> expression]
ReturnStmt(keyword, value) == [s |-> "Return", keyword |-> keyword, value |-> value]
VarStmt(name, initializer) == [s |-> "Var", name |-> name, initializer |-> initializer]
WhileStmt(condition, body) == [s |-> "While", condition |-> condition, body |-> body]

----------------------------------------------------------------------------
(* resolver.rs.  r is the Resolver: scopes, had_error, current_function,   *)
(* current_class, and the side table it fills through Interpreter::resolve. *)

ResolverNew ==
    [scopes |-> <<>>, locals |-> EmptyMap, had_error |-> FALSE,
     current_function |-> "None", current_class |-> "None"]

\* an error that is printed and leaves had_error as it was
ResolverErrorUnflagged(r) == r

ResolverError(r) == [r EXCEPT !.had_error = TRUE]

ResolverSuccess(r) == ~r.had_error

BeginScope(r) == [r EXCEPT !.scopes = Append(@, EmptyMap)]

EndScope(r) == [r EXCEPT !.scopes = SubSeq(@, 1, Len(@) - 1)]

\* a declare that accepts a name the scope already holds
DeclareShadowing(r, name) ==
    IF r.scopes = <<>> THEN r
    ELSE [r EXCEPT !.scopes[Len(r.scopes)] = Insert(@, name.lexeme, FALSE)]

Declare(r, name) ==
    IF r.scopes = <<>> THEN r
    ELSE LET n == Len(r.scopes)
             r1 == IF name.lexeme \in DOMAIN r.scopes[n] THEN ResolverError(r) ELSE r
         IN [r1 EXCEPT !.scopes[n] = Insert(@, name.lexeme, FALSE)]

Define(r, name) ==
    IF r.scopes = <<>> THEN r
    ELSE [r EXCEPT !.scopes[Len(r.scopes)] = Insert(@, name.lexeme, TRUE)]

InterpreterResolve(table, id, depth) == Insert(table, id, depth)

ResolveLocal(r, id, name) ==
    LET n == Len(r.scopes)
        hits == {i \in 1..n : name.lexeme \in DOMAIN r.scopes[i]}
    IN IF hits = {} THEN r
       ELSE LET innermost == CHOOSE i \in hits : \A j \in hits : j <= i
            IN [r EXCEPT !.locals = InterpreterResolve(@, id, n - innermost)]

\* Ok(()) and Err(LoxResult::runtime_error(token, ..)), with the resolver left behind
ROk(r) == [k |-> "Ok", r |-> r, token |-> NoToken]

\* an error that is not returned
RErrSwallowed(r, token) == [k |-> "Ok", r |-> r, token |-> NoToken]

RErr(r, token) == [k |-> "Err", r |-> r, token |-> token]

RECURSIVE ResolveExpr(_, _), ResolveExprs(_, _, _), ResolveStmt(_, _), Resolve(_, _, _),
          ResolveFunction(_, _, _), ResolveMethods(_, _, _), DeclareParams(_, _, _)

\* the `?` of the visitors: an Err leaves at once, an Ok goes on in Then
ResolveExprs(exprs, i, r) ==
    IF i > Len(exprs) THEN ROk(r)
    ELSE LET Then(a) == IF a.k # "Ok" THEN a ELSE ResolveExprs(exprs, i + 1, a.r)
         IN Then(ResolveExpr(exprs[i], r))

ResolveExpr(expr, r) ==
    CASE expr.e = "Super" ->
           ROk(ResolveLocal(IF r.current_class = "Subclass" THEN r ELSE ResolverError(r),
                            expr.id, expr.keyword))
      [] expr.e = "This" ->
           ROk(ResolveLocal(IF r.current_class = "None" THEN ResolverError(r) ELSE r,
                            expr.id, expr.keyword))
      [] expr.e = "Set" ->
           LET Then(a) == IF a.k # "Ok" THEN a ELSE ResolveExpr(expr.object, a.r)
           IN Then(ResolveExpr(expr.value, r))
      [] expr.e = "Get" -> ResolveExpr(expr.object, r)
      [] expr.e = "Literal" -> ROk(r)
      [] expr.e = "Grouping" -> ResolveExpr(expr.expression, r)
      [] expr.e \in {"Binary", "Logical"} ->
           LET Then(a) == IF a.k # "Ok" THEN a ELSE ResolveExpr(expr.right, a.r)
           IN Then(ResolveExpr(expr.left, r))
      [] expr.e = "Unary" -> ResolveExpr(expr.right, r)
      [] expr.e = "Variable" ->
           IF /\ r.scopes # <<>>
              /\ expr.name.lexeme \in DOMAIN r.scopes[Len(r.scopes)]
              /\ r.scopes[Len(r.scopes)][expr.name.lexeme] = FALSE
           THEN RErr(r, expr.name)
           ELSE ROk(ResolveLocal(r, expr.id, expr.name))
      [] expr.e = "Assign" ->
           LET Then(a) == IF a.k # "Ok" THEN a
                          ELSE ROk(ResolveLocal(a.r, expr.id, expr.name))
           IN Then(ResolveExpr(expr.value, r))
      [] expr.e = "Call" ->
           LET Then(a) == IF a.k # "Ok" THEN a ELSE ResolveExprs(expr.arguments, 1, a.r)
           IN Then(ResolveExpr(expr.callee, r))

DeclareParams(params, i, r) ==
    IF i > Len(params) THEN r
    ELSE DeclareParams(params, i + 1, Define(Declare(r, params[i]), params[i]))

ResolveFunction(function, function_type, r) ==
    LET enclosing_function == r.current_function
        Then(a) == IF a.k # "Ok" THEN a
                   ELSE ROk([EndScope(a.r) EXCEPT !.current_function = enclosing_function])
    IN Then(Resolve(function.body, 1,
                    DeclareParams(function.params, 1,
                                  BeginScope([r EXCEPT !.current_function = function_type]))))

ResolveMethods(methods, i, r) ==
    IF i > Len(methods) THEN ROk(r)
    ELSE LET declaration ==
                 IF methods[i].name.lexeme = "init" THEN "Initializer" ELSE "Method"
             Then(a) == IF a.k # "Ok" THEN a ELSE ResolveMethods(methods, i + 1, a.r)
         IN Then(ResolveFunction(methods[i], declaration, r))

Resolve(statements, i, r) ==
    IF i > Len(statements) THEN ROk(r)
    ELSE LET Then(a) == IF a.k # "Ok" THEN a ELSE Resolve(statements, i + 1, a.r)
         IN Then(ResolveStmt(statements[i], r))

\* begin_scope, then the insertion of one defined name ("super", "this")
ScopeWith(r, name) ==
    LET Put(b) == [b EXCEPT !.scopes[Len(b.scopes)] = Insert(@, name, TRUE)]
    IN Put(BeginScope(r))

ResolveStmt(stmt, r) ==
    CASE stmt.s = "Class" ->
           LET enclosing_class == r.current_class
               sup == stmt.superclass
               Finish(m) ==
                   IF m.k # "Ok" THEN m
                   ELSE ROk([(IF sup # <<>> THEN EndScope(EndScope(m.r))
                              ELSE EndScope(m.r))
                             EXCEPT !.current_class = enclosing_class])
               Methods(a) ==
                   IF a.k # "Ok" THEN a
                   ELSE Finish(ResolveMethods(
                                   stmt.methods, 1,
                                   ScopeWith(IF sup = <<>> THEN a.r
                                             ELSE ScopeWith(a.r, "super"), "this")))
               Superclass(r1) ==
                   IF sup = <<>> THEN ROk(r1)
                   ELSE ResolveExpr(sup[1],
                                    [(IF /\ sup[1].e = "Variable"
                                         /\ stmt.name.lexeme = sup[1].name.lexeme
                                      THEN ResolverError(r1) ELSE r1)
                                     EXCEPT !.current_class = "Subclass"])
           IN Methods(Superclass(Define(Declare([r EXCEPT !.current_class = "Class"],
                                                stmt.name), stmt.name)))
      [] stmt.s = "Block" ->
           LET Then(a) == IF a.k # "Ok" THEN a ELSE ROk(EndScope(a.r))
           IN Then(Resolve(stmt.statements, 1, BeginScope(r)))
      [] stmt.s = "Expression" -> ResolveExpr(stmt.expression, r)
      [] stmt.s = "Function" ->
           ResolveFunction(stmt, "Function", Define(Declare(r, stmt.name), stmt.name))
      [] stmt.s = "If" ->
           LET Else(b) == IF b.k # "Ok" \/ stmt.else_branch = <<>> THEN b
                          ELSE ResolveStmt(stmt.else_branch[1], b.r)
               Then(a) == IF a.k # "Ok" THEN a ELSE Else(ResolveStmt(stmt.then_branch, a.r))
           IN Then(ResolveExpr(stmt.condition, r))
      [] stmt.s = "Print" -> ResolveExpr(stmt.expression, r)
      [] stmt.s = "Return" ->
           LET Value(r1) ==
                   IF stmt.value = <<>> THEN ROk(r1)
                   ELSE ResolveExpr(stmt.value[1],
                                    IF r1.current_function = "Initializer"
                                    THEN ResolverError(r1) ELSE r1)
           IN Value(IF r.current_function = "None" THEN ResolverError(r) ELSE r)
      [] stmt.s = "Var" ->
           LET Then(a) == IF a.k # "Ok" THEN a ELSE ROk(Define(a.r, stmt.name))
               Initializer(r1) == IF stmt.initializer = <<>> THEN ROk(r1)
                                  ELSE ResolveExpr(stmt.initializer[1], r1)
           IN Then(Initializer(Declare(r, stmt.name)))
      [] stmt.s = "While" ->
           LET Then(a) == IF a.k # "Ok" THEN a ELSE ResolveStmt(stmt.body, a.r)
           IN Then(ResolveExpr(stmt.condition, r))

----------------------------------------------------------------------------
(* object.rs: operators on Object.  A Num is modelled by an integer.       *)
(* hp is the heap: functions, classes, instances (sequences of cells).     *)

Digit(d) == SubSeq("0123456789", d + 1, d + 1)

RECURSIVE NatToString(_)
NatToString(n) == IF n < 10 THEN Digit(n) ELSE NatToString(n \div 10) \o Digit(n % 10)

\* write!(f, "{x}") for an integer-valued f64
NumToString(n) == IF n < 0 THEN "-" \o NatToString(0 - n) ELSE NatToString(n)

ObjectMul(left, right) ==
    IF left.t = "Num" /\ right.t = "Num" THEN ObjectNum(left.v * right.v)
    ELSE ObjectArithmeticError

ObjectDiv(left, right) ==
    IF left.t = "Num" /\ right.t = "Num"
    THEN IF right.v = 0 THEN ObjectDivByZeroError ELSE ObjectNum(left.v \div right.v)
    ELSE ObjectArithmeticError

ObjectSub(left, right) ==
    IF left.t = "Num" /\ right.t = "Num" THEN ObjectNum(left.v - right.v)
    ELSE ObjectArithmeticError

\* an addition that turns a number into text when the other operand is a string
ObjectAddCoerce(left, right) ==
    IF left.t = "Num" /\ right.t = "Num" THEN ObjectNum(left.v + right.v)
    ELSE IF left.t = "Str" /\ right.t = "Str" THEN ObjectStr(left.x \o right.x)
    ELSE IF left.t = "Str" /\ right.t = "Num"
         THEN ObjectStr(left.x \o NumToString(right.v))
    ELSE IF left.t = "Num" /\ right.t = "Str"
         THEN ObjectStr(NumToString(left.v) \o right.x)
    ELSE ObjectArithmeticError

ObjectAdd(left, right) ==
    IF left.t = "Num" /\ right.t = "Num" THEN ObjectNum(left.v + right.v)
    ELSE IF left.t = "Str" /\ right.t = "Str" THEN ObjectStr(left.x \o right.x)
    ELSE ObjectArithmeticError

\* partial_cmp: "Less", "Equal", "Greater" or "None"
PartialCmp(left, right) ==
    IF left.t = "Nil" /\ right.t = "Nil" THEN "Equal"
    ELSE IF left.t = "Nil" \/ right.t = "Nil" THEN "None"
    ELSE IF left.t = "Num" /\ right.t = "Num"
         THEN IF left.v < right.v THEN "Less"
              ELSE IF left.v = right.v THEN "Equal" ELSE "Greater"
    ELSE "None"

\* function.rs, impl PartialEq for Function: the name's token type and the
\* identity of params, body (the declaration's Rcs) and closure
FunctionEq(hp, f, g) ==
    /\ hp.functions[f].name.token_type = hp.functions[g].name.token_type
    /\ hp.functions[f].declaration.id = hp.functions[g].declaration.id
    /\ hp.functions[f].closure = hp.functions[g].closure

\* callable.rs / native_functions.rs: identity of the Rc<dyn LoxCallable>
NativeEq(hp, m, n) == m = n

RECURSIVE ObjectEq(_, _, _), ClassEq(_, _, _), InstanceEq(_, _, _), MapEq(_, _, _)

\* HashMap<String, Object> equality: same keys, equal values
MapEq(hp, m1, m2) ==
    /\ DOMAIN m1 = DOMAIN m2
    /\ \A key \in DOMAIN m1 : ObjectEq(hp, m1[key], m2[key])

\* class.rs, derive(PartialEq) on Class: name, methods, superclass
ClassEq(hp, c, d) ==
    /\ hp.classes[c].name = hp.classes[d].name
    /\ MapEq(hp, hp.classes[c].methods, hp.classes[d].methods)
    /\ Len(hp.classes[c].superclass) = Len(hp.classes[d].superclass)
    /\ hp.classes[c].superclass # <<>> =>
           ClassEq(hp, hp.classes[c].superclass[1], hp.classes[d].superclass[1])

\* instance.rs, derive(PartialEq) on Instance: klass (by value), fields
InstanceEq(hp, i, j) ==
    /\ ClassEq(hp, hp.instances[i].klass, hp.instances[j].klass)
    /\ MapEq(hp, hp.instances[i].fields, hp.instances[j].fields)

\* derive(PartialEq) on Object; Rc<T> compares the values it points to
ObjectEq(hp, a, b) ==
    IF a.t # b.t THEN FALSE
    ELSE CASE a.t = "Num" -> a.v = b.v
           [] a.t = "Str" -> a.x = b.x
           [] a.t = "Bool" -> a.b = b.b
           [] a.t = "Func" -> FunctionEq(hp, a.v, b.v)
           [] a.t = "Class" -> ClassEq(hp, a.v, b.v)
           [] a.t = "Instance" -> InstanceEq(hp, a.v, b.v)
           [] a.t = "Native" -> NativeEq(hp, a.v, b.v)
           [] OTHER -> TRUE

RECURSIVE Join(_, _)
\* the keys of a HashMap joined by ", " (iteration order is unspecified)
Join(keys, sep) ==
    IF keys = {} THEN ""
    ELSE LET key == CHOOSE c \in keys : TRUE
         IN IF keys = {key} THEN key ELSE key \o sep \o Join(keys \ {key}, sep)

\* class.rs, impl Display for Class
ClassDisplay(hp, c) ==
    hp.classes[c].name \o " with methods: { " \o Join(DOMAIN hp.classes[c].methods, ", ")
        \o " }"

RECURSIVE ObjectDisplay(_, _)
\* impl Display for Object (and instance.rs, impl Display for Instance)
ObjectDisplay(hp, o) ==
    CASE o.t = "Num" -> NumToString(o.v)
      [] o.t = "Str" -> o.x
      [] o.t = "Bool" -> IF o.b THEN "true" ELSE "false"
      [] o.t = "Func" -> "<func>"
      [] o.t = "Native" -> "<Native function>"
      [] o.t = "Class" -> "<Class " \o ClassDisplay(hp, o.v) \o ">"
      [] o.t = "Instance" ->
           LET fields == hp.instances[o.v].fields
               shown == {IF fields[key].t = "Str"
                         THEN key \o " = \"" \o fields[key].x \o "\""
                         ELSE key \o " = " \o ObjectDisplay(hp, fields[key])
                         : key \in DOMAIN fields}
           IN "<Instance " \o ClassDisplay(hp, hp.instances[o.v].klass) \o " with { "
                  \o Join(shown, ", ") \o " }>"
      [] o.t = "Nil" -> "nil"
      [] o.t = "ArithmeticError" -> "ArithmeticError"
      [] o.t = "DivByZeroError" -> "DivByZeroError"

----------------------------------------------------------------------------
(* interpreter.rs.  s is the Interpreter with its heap:                    *)
(*   environment, globals   indices into envs                              *)
(*   envs, functions, classes, instances, natives   the Rc cells           *)
(*   output                 the lines printed                              *)
(*   h                      history of the run (what each visitor did)     *)

History ==
    [blocks |-> {}, lookups |-> {}, calls |-> {}, arity |-> {}, instantiations |-> {},
     logical |-> {}, equalities |-> {}, binaries |-> {}, failures |-> {}, assigns |-> {}, at |-> {},
     activations |-> {},
     depth |-> 0,
     returned |-> <<>>,
     after_return |-> FALSE]

Record(s, log, entry) == [s EXCEPT !.h[log] = @ \cup {entry}]

\* the interpreter and heap without the history
Heap(s) == [s EXCEPT !.h = History]

InterpreterNew ==
    [environment |-> 1, globals |-> 1,
     envs |-> << EnvDefine(EnvDefine(Environment(0), "clock", ObjectNative(1)),
                           "num_to_str", ObjectNative(2)) >>,
     functions |-> <<>>, classes |-> <<>>, instances |-> <<>>,
     natives |-> <<"NativeClock", "NativeNumToString">>,
     output |-> <<>>, h |-> History]

\* a truthiness in which the number 0 is falsy too
IsTruthyZeroFalsy(object) ==
    ~(\/ object.t = "Nil"
      \/ (object.t = "Bool" /\ object.b = FALSE)
      \/ (object.t = "Num" /\ object.v = 0))

IsTruthy(object) == ~(object.t = "Nil" \/ (object.t = "Bool" /\ object.b = FALSE))

\* what one access to a variable did: where the name is bound and which frame was used
LookupEntry(s, id, lexeme, access, resolved, distance, got) ==
    LET target == Ancestor(s.envs, s.environment, distance)
    IN [id |-> id, access |-> access, resolved |-> resolved, distance |-> distance,
        bound |-> target # 0 /\ lexeme \in DOMAIN s.envs[target].values,
        k |-> got.k,
        hops |-> IF got.k = "Ok" THEN Hops(s.envs, s.environment, got.frame) ELSE -1,
        global |-> got.k = "Ok" /\ got.frame = s.globals]

\* a lookup that walks the chain from the current environment at run time
\* (dynamic scoping), ignoring the resolver's table
LookupVariableDynamic(name, id, s) ==
    LET Got(got) == IF got.k = "Ok" THEN Ok(got.v, s)
                    ELSE RuntimeError(name, "GET: Undefined variable", s)
    IN Got(EnvGet(s.envs, s.environment, name))

LookupVariable(name, id, s) ==
    IF id \in DOMAIN locals
    THEN LET got == EnvGetAt(s.envs, s.environment, locals[id], name.lexeme)
             s1 == Record(s, "lookups",
                          LookupEntry(s, id, name.lexeme, "get", TRUE, locals[id], got))
         IN IF got.k = "Ok" THEN Ok(got.v, s1) ELSE Panic(s1)
    ELSE LET got == EnvGet(s.envs, s.globals, name)
             s1 == Record(s, "lookups", LookupEntry(s, id, name.lexeme, "get", FALSE, 0, got))
         IN IF got.k = "Ok" THEN Ok(got.v, s1)
            ELSE RuntimeError(name, "GET: Undefined variable", s1)

\* class.rs
RECURSIVE ClassFindMethod(_, _, _)
ClassFindMethod(classes, c, name) ==
    IF name \in DOMAIN classes[c].methods THEN << classes[c].methods[name] >>
    ELSE IF classes[c].superclass # <<>>
         THEN ClassFindMethod(classes, classes[c].superclass[1], name)
         ELSE <<>>

\* function.rs
FunctionNew(declaration, closure, is_initializer) ==
    [name |-> declaration.name, declaration |-> declaration, closure |-> closure,
     is_initializer |-> is_initializer]

FunctionArity(function) == Len(function.declaration.params)

\* Function::bind: a new environment defining `this`, and a new Function over it
FunctionBind(f, instance, s) ==
    LET env == EnvDefine(Environment(s.functions[f].closure), "this", instance)
        s1 == [s EXCEPT !.envs = Append(@, env)]
        s2 == [s1 EXCEPT !.functions =
                  Append(@, [s.functions[f] EXCEPT !.closure = Len(s1.envs)])]
    IN Ok(ObjectFunc(Len(s2.functions)), s2)

ClassArity(c, s) ==
    LET initializer == ClassFindMethod(s.classes, c, "init")
    IN IF initializer # <<>> /\ initializer[1].t = "Func"
       THEN FunctionArity(s.functions[initializer[1].v])
       ELSE 0

\* native_functions.rs
NativeArity(n, s) == IF s.natives[n] = "NativeClock" THEN 0 ELSE 1

NativeCall(n, arguments, s) ==
    IF s.natives[n] = "NativeClock"
    THEN IF sys_time >= 0 THEN Ok(ObjectNum(sys_time), s)
         ELSE SystemError("clock() failed.", s)
    ELSE IF arguments = <<>> THEN Panic(s)
         ELSE Ok(ObjectStr(ObjectDisplay(s, arguments[1])), s)

\* instance.rs
InstanceNew(klass) == [klass |-> klass, fields |-> EmptyMap]

\* a get that looks for a method before it looks for a field
InstanceGetMethodFirst(i, name, s) ==
    LET method == ClassFindMethod(s.classes, s.instances[i].klass, name.lexeme)
    IN IF method # <<>> /\ method[1].t = "Func"
       THEN FunctionBind(method[1].v, ObjectInstance(i), s)
       ELSE IF name.lexeme \in DOMAIN s.instances[i].fields
            THEN Ok(s.instances[i].fields[name.lexeme], s)
            ELSE RuntimeError(name, "Undefined propertiry '" \o name.lexeme \o "'.", s)

InstanceGet(i, name, s) ==
    IF name.lexeme \in DOMAIN s.instances[i].fields
    THEN Ok(s.instances[i].fields[name.lexeme], s)
    ELSE LET method == ClassFindMethod(s.classes, s.instances[i].klass, name.lexeme)
         IN IF method # <<>>
            THEN IF method[1].t = "Func"
                 THEN FunctionBind(method[1].v, ObjectInstance(i), s)
                 ELSE RuntimeError(name, "'this' is defined on a non-function", s)
            ELSE RuntimeError(name, "Undefined propertiry '" \o name.lexeme \o "'.", s)

InstanceSet(i, name, value, s) ==
    [s EXCEPT !.instances[i].fields = Insert(@, name.lexeme, value)]

\* In the visitors below an intermediate result (the value of an evaluate or
\* execute, with the interpreter it left behind) is bound as the parameter of
\* a local operator and used from there; `?` is the test `k # "Ok"`.
RECURSIVE Evaluate(_, _), Execute(_, _)

RECURSIVE ExecuteStatements(_, _, _), ExecuteStatementsPastReturn(_, _, _)

\* a statement list that goes on after a return and hands the carrier on at its end
ExecuteStatementsPastReturn(statements, i, s) ==
    IF i > Len(statements) THEN Ok(ObjectNil, s)
    ELSE LET Carry(v, rest) == IF rest.k = "Ok" THEN ReturnValue(v, rest.s) ELSE rest
             Then(result) ==
                 IF result.k = "ReturnValue"
                 THEN Carry(result.v,
                            ExecuteStatementsPastReturn(statements, i + 1, result.s))
                 ELSE IF result.k # "Ok" THEN result
                 ELSE ExecuteStatementsPastReturn(statements, i + 1, result.s)
         IN Then(Execute(statements[i], s))

\* statements.iter().try_for_each(|s| self.execute(s)): stops at the first Err
ExecuteStatements(statements, i, s) ==
    IF i > Len(statements) THEN Ok(ObjectNil, s)
    ELSE LET Then(result) == IF result.k # "Ok" THEN result
                             ELSE ExecuteStatements(statements, i + 1, result.s)
         IN Then(Execute(statements[i], s))

\* a block that puts the previous environment back only when it ends normally
ExecuteBlockRestoreOnOk(statements, env, s) ==
    LET previous == s.environment
        Restore(result) == IF result.k # "Ok" THEN result
                           ELSE [result EXCEPT !.s.environment = previous]
    IN Restore(ExecuteStatements(statements, 1,
                                 [s EXCEPT !.envs = Append(@, env),
                                           !.environment = Len(s.envs) + 1]))

\* Interpreter::execute_block.  A panic unwinds past the restoring replace.
ExecuteBlock(statements, env, s) ==
    LET previous == s.environment
        Restore(result) == IF result.k = "Panic" THEN result
                           ELSE [result EXCEPT !.s.environment = previous]
    IN Restore(ExecuteStatements(statements, 1,
                                 [s EXCEPT !.envs = Append(@, env),
                                           !.environment = Len(s.envs) + 1]))

\* what a finished execute_block looked like from its caller
BlockEntry(via, s, result) ==
    [via |-> via, k |-> result.k, depth |-> s.h.depth + 1,
     restored |-> result.s.environment = s.environment]

RECURSIVE DefineParamsLastFirst(_, _, _, _)
\* parameters bound to the arguments taken from the last to the first
DefineParamsLastFirst(params, arguments, i, env) ==
    IF i > Len(params) \/ i > Len(arguments) THEN env
    ELSE DefineParamsLastFirst(params, arguments, i + 1,
                               EnvDefine(env, params[i].lexeme,
                                         arguments[Len(arguments) + 1 - i]))

RECURSIVE DefineParams(_, _, _, _)
\* for (param, arg) in params.iter().zip(arguments.iter())
DefineParams(params, arguments, i, env) ==
    IF i > Len(params) \/ i > Len(arguments) THEN env
    ELSE DefineParams(params, arguments, i + 1,
                      EnvDefine(env, params[i].lexeme, arguments[i]))

\* function.rs, Function::call
FunctionCall(f, arguments, s) ==
    LET function == s.functions[f]
        Leave(body, result) ==
            IF result.k = "Panic" THEN result
            ELSE [result EXCEPT !.s =
                     Record(Record([@ EXCEPT
                                      !.h.returned = SubSeq(@, 1, Len(@) - 1),
                                      !.h.depth = @ - 1,
                                      !.h.activations = @ \cup
                                        {[frame |-> Len(s.envs) + 1,
                                          closure |-> function.closure,
                                          caller |-> s.environment,
                                          params |-> function.declaration.params,
                                          arguments |-> arguments,
                                          parent |-> body.s.envs[Len(s.envs) + 1].enclosing,
                                          values |-> body.s.envs[Len(s.envs) + 1].values,
                                          changed |-> {e \in 1..Len(s.envs) :
                                                         body.s.envs[e] # s.envs[e]}]}],
                                   "calls",
                                   [is_initializer |-> function.is_initializer,
                                    this |-> IF "this" \in
                                                    DOMAIN s.envs[function.closure].values
                                             THEN s.envs[function.closure].values["this"]
                                             ELSE ObjectNil,
                                    arguments |-> arguments,
                                    returned |-> body.s.h.returned[Len(body.s.h.returned)],
                                    carried |-> body.v, k |-> result.k, v |-> result.v]),
                            "blocks", BlockEntry("call", s, body))]
        This(body, this) == IF this.k = "Ok" THEN Ok(this.v, body.s) ELSE Panic(body.s)
        Match(body) ==
            Leave(body,
                  CASE body.k = "ReturnValue" -> Ok(body.v, body.s)
                    [] body.k = "Ok" ->
                         IF function.is_initializer
                         THEN This(body, EnvGetAt(body.s.envs, function.closure, 0, "this"))
                         ELSE Ok(ObjectNil, body.s)
                    [] OTHER -> body)
    IN Match(ExecuteBlock(function.declaration.body,
                          DefineParams(function.declaration.params, arguments, 1,
                                       Environment(function.closure)),
                          [s EXCEPT !.h.returned = Append(@, FALSE), !.h.depth = @ + 1]))

\* an instantiation whose value is whatever the initializer returned
ClassInstantiateInitResult(c, arguments, klass, s) ==
    LET Created(s1, instance) ==
            LET Call(init) == FunctionCall(init.v.v, arguments, init.s)
                Find(initializer) ==
                    IF initializer # <<>> /\ initializer[1].t = "Func"
                    THEN Call(FunctionBind(initializer[1].v, instance, s1))
                    ELSE Ok(instance, s1)
            IN Find(ClassFindMethod(s1.classes, c, "init"))
    IN Created([s EXCEPT !.instances = Append(@, InstanceNew(klass))],
               ObjectInstance(Len(s.instances) + 1))

\* class.rs, Class::instantiate (Class::call passes klass, the Rc of the class itself)
ClassInstantiate(c, arguments, klass, s) ==
    LET Created(s1, instance) ==
            LET Initialized(called) ==
                    IF called.k # "Ok" THEN called ELSE Ok(instance, called.s)
                Call(init) == Initialized(FunctionCall(init.v.v, arguments, init.s))
                Find(initializer) ==
                    IF initializer # <<>> /\ initializer[1].t = "Func"
                    THEN Call(FunctionBind(initializer[1].v, instance, s1))
                    ELSE Ok(instance, s1)
            IN Find(ClassFindMethod(s1.classes, c, "init"))
    IN Created([s EXCEPT !.instances = Append(@, InstanceNew(klass))],
               ObjectInstance(Len(s.instances) + 1))

RECURSIVE EvaluateArguments(_, _, _, _)
\* for argument in &expr.arguments { arguments.push(self.evaluate(argument)?) }
EvaluateArguments(exprs, i, arguments, s) ==
    IF i > Len(exprs) THEN Ok(arguments, s)
    ELSE LET Then(a) == IF a.k # "Ok" THEN a
                        ELSE EvaluateArguments(exprs, i + 1, Append(arguments, a.v), a.s)
         IN Then(Evaluate(exprs[i], s))

\* an arity comparison that lets a call with too many arguments through
ArityMismatchTooFew(arguments, arity) == Len(arguments) < arity

\* arguments.len() != callfunc.arity()
ArityMismatch(arguments, arity) == Len(arguments) # arity

VisitCallExpr(expr, s) ==
    LET Noted(callee, arguments, before, result) ==
            IF result.k = "Panic" THEN result
            ELSE [result EXCEPT !.s =
                     Record(@, "arity",
                            [callee |-> callee, arguments |-> arguments, k |-> result.k,
                             token |-> result.token, v |-> result.v,
                             untouched |-> Heap(result.s) = Heap(before),
                             instances |-> Len(before.instances),
                             created |-> Len(result.s.instances)
                                             - Len(before.instances)])]
        Checked(callee, arguments, s1, arity) ==
            Noted(callee, arguments, s1,
                  IF ArityMismatch(arguments, arity)
                  THEN RuntimeError(expr.paren, "Expected arguments", s1)
                  ELSE CASE callee.t = "Func" -> FunctionCall(callee.v, arguments, s1)
                         [] callee.t = "Native" -> NativeCall(callee.v, arguments, s1)
                         [] callee.t = "Class" ->
                              ClassInstantiate(callee.v, arguments, callee.v, s1))
        Arguments(callee, a) ==
            IF a.k # "Ok" THEN a
            ELSE CASE callee.t = "Func" ->
                        Checked(callee, a.v, a.s, FunctionArity(a.s.functions[callee.v]))
                   [] callee.t = "Native" ->
                        Checked(callee, a.v, a.s, NativeArity(callee.v, a.s))
                   [] callee.t = "Class" ->
                        Checked(callee, a.v, a.s, ClassArity(callee.v, a.s))
                   [] OTHER ->
                        RuntimeError(expr.paren, "Can only call functions and classes", a.s)
        Callee(c) == IF c.k # "Ok" THEN c
                     ELSE Arguments(c.v, EvaluateArguments(expr.arguments, 1, <<>>, c.s))
    IN Callee(Evaluate(expr.callee, s))

VisitSuperExpr(expr, s) ==
    IF expr.id \notin DOMAIN locals THEN Panic(s)
    ELSE LET distance == locals[expr.id]
             Found(superclass, object, s1) ==
                 LET Bind(method) ==
                         IF method # <<>>
                         THEN IF method[1].t = "Func"
                              THEN FunctionBind(method[1].v, object.v, s1)
                              ELSE Panic(s1)
                         ELSE RuntimeError(expr.method, "Undefined property '" \o expr.method.lexeme \o "'.", s1)
                 IN IF superclass.k # "Ok" \/ distance = 0 \/ object.k # "Ok" THEN Panic(s1)
                    ELSE IF superclass.v.t = "Class"
                         THEN Bind(ClassFindMethod(s.classes, superclass.v.v,
                                                   expr.method.lexeme))
                         ELSE RuntimeError(expr.method, "Undefined property '" \o expr.method.lexeme \o "'.", s1)
             Super(superclass) ==
                 Found(superclass,
                       EnvGetAt(s.envs, s.environment, distance - 1, "this"),
                       Record(s, "lookups",
                              LookupEntry(s, expr.id, "super", "get", TRUE, distance,
                                          superclass)))
         IN Super(EnvGetAt(s.envs, s.environment, distance, "super"))

VisitSetExpr(expr, s) ==
    LET Value(object, value) ==
            IF value.k # "Ok" THEN value
            ELSE Ok(value.v, InstanceSet(object.v.v, expr.name, value.v, value.s))
        Object_(object) ==
            IF object.k # "Ok" THEN object
            ELSE IF object.v.t = "Instance"
                 THEN Value(object, Evaluate(expr.value, object.s))
                 ELSE RuntimeError(expr.name, "Only instances have fields.", object.s)
    IN Object_(Evaluate(expr.object, s))

VisitGetExpr(expr, s) ==
    LET Then(object) ==
            IF object.k # "Ok" THEN object
            ELSE IF object.v.t = "Instance"
                 THEN InstanceGet(object.v.v, expr.name, object.s)
                 ELSE RuntimeError(expr.name, "Only instances have properties.", object.s)
    IN Then(Evaluate(expr.object, s))

VisitBinaryExpr(expr, s) ==
    LET op == expr.operator.token_type
        Result(left, right, s1, result) ==
            LET s2 == IF op = "EqualEqual"
                      THEN Record(s1, "equalities",
                                  [left |-> left, right |-> right, result |-> result.b])
                      ELSE s1
                Noted(out) ==
                    [out EXCEPT !.s = Record(@, "binaries",
                                             [operator |-> expr.operator, left |-> left,
                                              right |-> right, k |-> out.k, v |-> out.v,
                                              token |-> out.token,
                                              message |-> out.message])]
            IN Noted(IF result.t \in {"ArithmeticError", "DivByZeroError"}
                     THEN RuntimeError(expr.operator, ObjectDisplay(s2, result), s2)
                     ELSE Ok(result, s2))
        Operate(left, right, s1, cmp) ==
            Result(left, right, s1,
                   CASE op = "Star" -> ObjectMul(left, right)
                     [] op = "Slash" -> ObjectDiv(left, right)
                     [] op = "Minus" -> ObjectSub(left, right)
                     [] op = "Plus" -> ObjectAdd(left, right)
                     [] op = "Greater" -> ObjectBool(cmp = "Greater")
                     [] op = "GreaterEqual" -> ObjectBool(cmp \in {"Greater", "Equal"})
                     [] op = "Less" -> ObjectBool(cmp = "Less")
                     [] op = "LessEqual" -> ObjectBool(cmp \in {"Less", "Equal"})
                     [] op = "BangEqual" -> ObjectBool(~ObjectEq(s1, left, right))
                     [] op = "EqualEqual" -> ObjectBool(ObjectEq(s1, left, right)))
        Right(left, right) ==
            IF right.k # "Ok" THEN right
            ELSE Operate(left.v, right.v, right.s, PartialCmp(left.v, right.v))
        Left(left) == IF left.k # "Ok" THEN left
                      ELSE Right(left, Evaluate(expr.right, left.s))
    IN Left(Evaluate(expr.left, s))

VisitUnaryExpr(expr, s) ==
    LET Then(right) ==
            IF right.k # "Ok" THEN right
            ELSE CASE expr.operator.token_type = "Minus" ->
                        IF right.v.t = "Num" THEN Ok(ObjectNum(right.v.v * (-1)), right.s)
                        ELSE Ok(ObjectNil, right.s)
                   [] expr.operator.token_type = "Bang" ->
                        Ok(ObjectBool(~IsTruthy(right.v)), right.s)
                   [] OTHER -> RuntimeError(expr.operator, "Unreachable", right.s)
    IN Then(Evaluate(expr.right, s))

VisitAssignExpr(expr, s) ==
    LET resolved == expr.id \in DOMAIN locals
        distance == IF resolved THEN locals[expr.id] ELSE 0
        Assigned(value, s1, done) ==
            LET s2 == Record([s1 EXCEPT !.envs = done.envs], "lookups",
                             LookupEntry(s1, expr.id, expr.name.lexeme, "assign", resolved,
                                         distance, done))
            IN CASE done.k = "Ok" -> Ok(value, s2)
                 [] done.k = "Panic" -> Panic(s2)
                 [] OTHER -> RuntimeError(expr.name, "ASSIGN: Undefined variable", s2)
        Then(value) ==
            IF value.k # "Ok" THEN value
            ELSE Assigned(value.v, value.s,
                          IF resolved
                          THEN EnvAssignAt(value.s.envs, value.s.environment, distance,
                                           expr.name, value.v)
                          ELSE EnvAssign(value.s.envs, value.s.globals, expr.name, value.v))
    IN Then(Evaluate(expr.value, s))

VisitLogicalExpr(expr, s) ==
    LET Noted(left, short, result) ==
            IF result.k = "Panic" THEN result
            ELSE [result EXCEPT !.s =
                     Record(@, "logical",
                            [operator |-> expr.operator.token_type, left |-> left.v,
                             right_evaluated |-> ~short, k |-> result.k, v |-> result.v,
                             untouched |-> Heap(result.s) = Heap(left.s)])]
        Short(left, short) ==
            Noted(left, short, IF short THEN left ELSE Evaluate(expr.right, left.s))
        Left(left) ==
            IF left.k # "Ok" THEN left
            ELSE Short(left, IF expr.operator.token_type = "Or"
                             THEN IsTruthy(left.v) ELSE ~IsTruthy(left.v))
    IN Left(Evaluate(expr.left, s))

Evaluate(expr, s) ==
    CASE expr.e = "Assign" -> VisitAssignExpr(expr, s)
      [] expr.e = "Binary" -> VisitBinaryExpr(expr, s)
      [] expr.e = "Call" -> VisitCallExpr(expr, s)
      [] expr.e = "Get" -> VisitGetExpr(expr, s)
      [] expr.e = "Grouping" -> Evaluate(expr.expression, s)
      [] expr.e = "Literal" -> Ok(expr.value, s)
      [] expr.e = "Logical" -> VisitLogicalExpr(expr, s)
      [] expr.e = "Set" -> VisitSetExpr(expr, s)
      [] expr.e = "Super" -> VisitSuperExpr(expr, s)
      [] expr.e = "This" -> LookupVariable(expr.keyword, expr.id, s)
      [] expr.e = "Unary" -> VisitUnaryExpr(expr, s)
      [] expr.e = "Variable" -> LookupVariable(expr.name, expr.id, s)

\* class.rs, Class::new
ClassNew(name, superclass, methods) ==
    [name |-> name, superclass |-> superclass, methods |-> methods]

RECURSIVE MakeMethods(_, _, _, _)
\* the loop of visit_class_stmt that fills the method table
MakeMethods(declarations, i, methods, s) ==
    IF i > Len(declarations) THEN [methods |-> methods, s |-> s]
    ELSE MakeMethods(declarations, i + 1,
                     Insert(methods, declarations[i].name.lexeme,
                            ObjectFunc(Len(s.functions) + 1)),
                     [s EXCEPT !.functions =
                         Append(@, FunctionNew(declarations[i], s.environment,
                                               declarations[i].name.lexeme = "init"))])

VisitClassStmt(stmt, s) ==
    LET has_super == stmt.superclass # <<>>
        Assign(s4, done) ==
            IF done.k = "Ok" THEN Ok(ObjectNil, [s4 EXCEPT !.envs = done.envs])
            ELSE RuntimeError(stmt.name, "ASSIGN: Undefined variable", s4)
        Klass(s4, klass) == Assign(s4, EnvAssign(s4.envs, s4.environment, stmt.name, klass))
        Made(superclass, enclosing, made) ==
            Klass([made.s EXCEPT
                       !.classes = Append(@, ClassNew(stmt.name.lexeme, superclass,
                                                      made.methods)),
                       !.environment = IF has_super THEN enclosing ELSE @],
                  ObjectClass(Len(made.s.classes) + 1))
        Defined(sup, s1) ==
            Made(IF has_super THEN << sup.v >> ELSE <<>>, s1.environment,
                 MakeMethods(stmt.methods, 1, EmptyMap,
                             IF has_super
                             THEN [s1 EXCEPT
                                      !.envs = Append(@, EnvDefine(
                                                   Environment(s1.environment),
                                                   "super", sup)),
                                      !.environment = Len(s1.envs) + 1]
                             ELSE s1))
        Superclass(sup) ==
            IF sup.k # "Ok" THEN sup
            ELSE IF has_super /\ sup.v.t # "Class"
                 THEN IF stmt.superclass[1].e = "Variable"
                      THEN RuntimeError(stmt.superclass[1].name,
                                        "Superclass must be a class.", sup.s)
                      ELSE Panic(sup.s)
            ELSE Defined(sup.v, [sup.s EXCEPT !.envs[sup.s.environment] =
                                                  EnvDefine(@, stmt.name.lexeme, ObjectNil)])
    IN Superclass(IF has_super THEN Evaluate(stmt.superclass[1], s) ELSE Ok(ObjectNil, s))

VisitExpressionStmt(stmt, s) ==
    LET Then(value) == IF value.k # "Ok" THEN value ELSE Ok(ObjectNil, value.s)
    IN Then(Evaluate(stmt.expression, s))

VisitPrintStmt(stmt, s) ==
    LET Then(value) ==
            IF value.k # "Ok" THEN value
            ELSE Ok(ObjectNil,
                    [value.s EXCEPT !.output = Append(@, ObjectDisplay(value.s, value.v))])
    IN Then(Evaluate(stmt.expression, s))

VisitVarStmt(stmt, s) ==
    LET Then(value) ==
            IF value.k # "Ok" THEN value
            ELSE Ok(ObjectNil,
                    [value.s EXCEPT !.envs[value.s.environment] =
                                        EnvDefine(@, stmt.name.lexeme, value.v)])
    IN Then(IF stmt.initializer # <<>> THEN Evaluate(stmt.initializer[1], s)
            ELSE Ok(ObjectNil, s))

VisitBlockStmt(stmt, s) ==
    LET Noted(result) ==
            IF result.k = "Panic" THEN result
            ELSE [result EXCEPT !.s = Record([@ EXCEPT !.h.depth = @ - 1], "blocks",
                                             BlockEntry("block", s, result))]
    IN Noted(ExecuteBlock(stmt.statements, Environment(s.environment),
                          [s EXCEPT !.h.depth = @ + 1]))

VisitIfStmt(stmt, s) ==
    LET Then(condition) ==
            IF condition.k # "Ok" THEN condition
            ELSE IF IsTruthy(condition.v) THEN Execute(stmt.then_branch, condition.s)
            ELSE IF stmt.else_branch # <<>> THEN Execute(stmt.else_branch[1], condition.s)
            ELSE Ok(ObjectNil, condition.s)
    IN Then(Evaluate(stmt.condition, s))

RECURSIVE VisitWhileStmt(_, _)
VisitWhileStmt(stmt, s) ==
    LET Body(body) == IF body.k # "Ok" THEN body ELSE VisitWhileStmt(stmt, body.s)
        Then(condition) ==
            IF condition.k # "Ok" THEN condition
            ELSE IF IsTruthy(condition.v) THEN Body(Execute(stmt.body, condition.s))
                 ELSE Ok(ObjectNil, condition.s)
    IN Then(Evaluate(stmt.condition, s))

VisitFunctionStmt(stmt, s) ==
    Ok(ObjectNil,
       [s EXCEPT !.functions = Append(@, FunctionNew(stmt, s.environment, FALSE)),
                 !.envs[s.environment] =
                     EnvDefine(@, stmt.name.lexeme, ObjectFunc(Len(s.functions) + 1))])

\* the innermost running call has executed a return statement
MarkReturned(s) ==
    IF s.h.returned = <<>> THEN s
    ELSE [s EXCEPT !.h.returned[Len(s.h.returned)] = TRUE]

VisitReturnStmt(stmt, s) ==
    IF stmt.value # <<>>
    THEN LET Then(value) == IF value.k # "Ok" THEN value
                            ELSE ReturnValue(value.v, MarkReturned(value.s))
         IN Then(Evaluate(stmt.value[1], s))
    ELSE ReturnValue(ObjectNil, MarkReturned(s))

\* a statement that starts after the innermost running call executed a return
NoteStatement(s) ==
    IF s.h.returned # <<>> /\ s.h.returned[Len(s.h.returned)]
    THEN [s EXCEPT !.h.after_return = TRUE]
    ELSE s

Execute(statement, s) ==
    CASE statement.s = "Block" -> VisitBlockStmt(statement, NoteStatement(s))
      [] statement.s = "Class" -> VisitClassStmt(statement, NoteStatement(s))
      [] statement.s = "Expression" -> VisitExpressionStmt(statement, NoteStatement(s))
      [] statement.s = "Function" -> VisitFunctionStmt(statement, NoteStatement(s))
      [] statement.s = "If" -> VisitIfStmt(statement, NoteStatement(s))
      [] statement.s = "Print" -> VisitPrintStmt(statement, NoteStatement(s))
      [] statement.s = "Return" -> VisitReturnStmt(statement, NoteStatement(s))
      [] statement.s = "Var" -> VisitVarStmt(statement, NoteStatement(s))
      [] statement.s = "While" -> VisitWhileStmt(statement, NoteStatement(s))

----------------------------------------------------------------------------
(* scanner.rs and utils.rs.  The source is a sequence of characters; a    *)
(* character is a string of length one; positions count from 0 as in the   *)
(* code.  sc is the Scanner; `panicked` records that an unwrap on None     *)
(* ended the process.                                                      *)

\* Token::new with its literal (an Option<Object>)
TokenNew(token_type, lexeme, literal, line) ==
    [token_type |-> token_type, lexeme |-> lexeme, literal |-> literal, line |-> line]

\* ScannerError::Default (is_error false) and ScannerError::Error { line, message }
ScannerError(is_error, line, message) ==
    [is_error |-> is_error, line |-> line, message |-> message]

is_digit(c) == c \in {"0", "1", "2", "3", "4", "5", "6", "7", "8", "9"}

is_alpha(c) ==
    c \in {"a", "b", "c", "d", "e", "f", "g", "h", "i", "j", "k", "l", "m",
           "n", "o", "p", "q", "r", "s", "t", "u", "v", "w", "x", "y", "z",
           "A", "B", "C", "D", "E", "F", "G", "H", "I", "J", "K", "L", "M",
           "N", "O", "P", "Q", "R", "S", "T", "U", "V", "W", "X", "Y", "Z", "_"}

\* the text of a run of characters
RECURSIVE Text(_)
Text(chars) ==
    IF chars = << >> THEN "" ELSE Head(chars) \o Text(Tail(chars))

\* str::parse of a run of digits
RECURSIVE ParseNumber(_)
ParseNumber(chars) ==
    IF chars = << >> THEN 0
    ELSE 10 * ParseNumber(SubSeq(chars, 1, Len(chars) - 1))
         + (CHOOSE d \in 0..9 : Digit(d) = chars[Len(chars)])

\* the keywords map of Scanner::new, with the default of identifier()
KeywordOf(text) ==
    CASE text = "and" -> "And"
      [] text = "class" -> "Class"
      [] text = "else" -> "Else"
      [] text = "false" -> "False"
      [] text = "for" -> "For"
      [] text = "fun" -> "Fun"
      [] text = "if" -> "If"
      [] text = "nil" -> "Nil"
      [] text = "or" -> "Or"
      [] text = "print" -> "Print"
      [] text = "return" -> "Return"
      [] text = "super" -> "Super"
      [] text = "this" -> "This"
      [] text = "true" -> "True"
      [] text = "var" -> "Var"
      [] text = "while" -> "While"
      [] OTHER -> "Identifier"

ScannerNew(source_code) ==
    [error |-> ScannerError(FALSE, 0, ""), source_code |-> source_code,
     tokens |-> << >>, current |-> 0, start |-> 0, line |-> 1, panicked |-> FALSE]

is_at_end(sc) == sc.current >= Len(sc.source_code)

\* chars().nth(current).unwrap() panics past the end; a scanner that has
\* panicked does nothing more
advance(sc) ==
    IF sc.panicked \/ sc.current >= Len(sc.source_code)
    THEN [sc EXCEPT !.panicked = TRUE]
    ELSE [sc EXCEPT !.current = @ + 1]

\* the lexeme is &source_code[start..current]
add_token(sc, token_type, literal) ==
    IF sc.panicked THEN sc
    ELSE [sc EXCEPT !.tokens =
              Append(@, TokenNew(token_type,
                                 IF token_type = "EOF" THEN ""
                                 ELSE Text(SubSeq(sc.source_code, sc.start + 1, sc.current)),
                                 literal, sc.line))]

\* expect: whether the next character is the expected one (it is then
\* consumed by the caller's advance)
expect(sc, expected) ==
    /\ ~is_at_end(sc)
    /\ sc.source_code[sc.current + 1] = expected

\* '\0' at the end of the source
peek(sc) ==
    IF is_at_end(sc) THEN "\\0" ELSE sc.source_code[sc.current + 1]

peek_next(sc) ==
    IF sc.current + 1 >= Len(sc.source_code) THEN "\\0"
    ELSE sc.source_code[sc.current + 2]

\* string(): up to the closing quote, counting the lines on the way
string(sc) ==
    LET RECURSIVE Body(_)
        Body(s1) ==
            IF peek(s1) # "\"" /\ ~is_at_end(s1)
            THEN Body(advance(IF peek(s1) = "\n" THEN [s1 EXCEPT !.line = @ + 1]
                              ELSE s1))
            ELSE s1
        Closed(s1) ==
            add_token(s1, "StringLiteral",
                      << ObjectStr(Text(SubSeq(s1.source_code, s1.start + 2,
                                               s1.current - 1))) >>)
        Then(s1) ==
            IF is_at_end(s1)
            THEN [s1 EXCEPT !.error = ScannerError(TRUE, s1.line, "Unterminated String.")]
            ELSE Closed(advance(s1))
    IN Then(Body(sc))

\* number(): the sources of the model hold no `.`, so the literal is the
\* value of the run of digits
number(sc) ==
    LET RECURSIVE DigitsRun(_)
        DigitsRun(s1) ==
            IF is_digit(peek(s1)) THEN DigitsRun(advance(s1)) ELSE s1
        Literal(s1) ==
            add_token(s1, "NumberLiteral",
                      << ObjectNum(ParseNumber(SubSeq(s1.source_code, s1.start + 1,
                                                      s1.current))) >>)
        Fraction(s1) ==
            IF peek(s1) = "." /\ is_digit(peek_next(s1))
            THEN DigitsRun(advance(s1)) ELSE s1
    IN Literal(Fraction(DigitsRun(sc)))

identifier(sc) ==
    LET RECURSIVE Run(_)
        Run(s1) ==
            IF is_alpha(peek(s1)) \/ is_digit(peek(s1)) THEN Run(advance(s1)) ELSE s1
        Typed(s1, token_type) ==
            CASE token_type = "True" -> add_token(s1, "True", << ObjectBool(TRUE) >>)
              [] token_type = "False" -> add_token(s1, "False", << ObjectBool(FALSE) >>)
              [] token_type = "Nil" -> add_token(s1, "Nil", << ObjectNil >>)
              [] OTHER -> add_token(s1, token_type, << >>)
        Then(s1) ==
            Typed(s1, KeywordOf(Text(SubSeq(s1.source_code, s1.start + 1, s1.current))))
    IN Then(Run(sc))

\* scan_token is called only when the scanner is not at the end; c is the
\* character advance() returns
scan_token(sc) ==
    LET \* `//`: up to the end of the line
        RECURSIVE LineComment(_)
        LineComment(s1) ==
            IF peek(s1) # "\n" /\ ~is_at_end(s1) THEN LineComment(advance(s1)) ELSE s1
        \* `/*`: the while loop, then the two advances that skip the `*/`
        RECURSIVE BlockComment(_)
        BlockComment(s1) ==
            IF s1.panicked THEN s1
            ELSE IF peek(s1) # "*" /\ peek_next(s1) # "/" THEN BlockComment(advance(s1))
            ELSE advance(advance(s1))
        OneOrTwo(s1, two, one) ==
            IF expect(s1, "=") THEN add_token(advance(s1), two, << >>)
            ELSE add_token(s1, one, << >>)
        Char(s1, c) ==
            CASE c = "(" -> add_token(s1, "LeftParen", << >>)
              [] c = ")" -> add_token(s1, "RightParen", << >>)
              [] c = "{" -> add_token(s1, "LeftBrace", << >>)
              [] c = "}" -> add_token(s1, "RightBrace", << >>)
              [] c = "," -> add_token(s1, "Comma", << >>)
              [] c = "." -> add_token(s1, "Dot", << >>)
              [] c = "-" -> add_token(s1, "Minus", << >>)
              [] c = "+" -> add_token(s1, "Plus", << >>)
              [] c = ";" -> add_token(s1, "Semicolon", << >>)
              [] c = "*" -> add_token(s1, "Star", << >>)
              [] c = "!" -> OneOrTwo(s1, "BangEqual", "Bang")
              [] c = "=" -> OneOrTwo(s1, "EqualEqual", "Equal")
              [] c = "<" -> OneOrTwo(s1, "LessEqual", "Less")
              [] c = ">" -> OneOrTwo(s1, "GreaterEqual", "Greater")
              [] c = "/" -> IF expect(s1, "/") THEN LineComment(advance(s1))
                            ELSE IF expect(s1, "*") THEN BlockComment(advance(s1))
                            ELSE add_token(s1, "Slash", << >>)
              [] c \in {" ", "\t", "\r"} -> s1
              [] c = "\n" -> [s1 EXCEPT !.line = @ + 1]
              [] c = "\"" -> string(s1)
              [] OTHER -> IF is_digit(c) THEN number(s1)
                          ELSE IF is_alpha(c) THEN identifier(s1)
                          ELSE [s1 EXCEPT !.error =
                                    ScannerError(TRUE, s1.line, "Unexpected Character.")]
    IN Char(advance(sc), sc.source_code[sc.current + 1])

\* the result of tokenize: Ok(tokens), Err(error) or a panic, with the
\* scanner it leaves
Scanned(k, sc) ==
    [k |-> k, tokens |-> IF k = "Ok" THEN sc.tokens ELSE << >>,
     error |-> IF k = "Err" THEN sc.error ELSE ScannerError(FALSE, 0, ""),
     scanner |-> sc]

tokenize(sc) ==
    LET RECURSIVE Loop(_)
        Loop(s1) ==
            IF is_at_end(s1) THEN add_token(s1, "EOF", << >>)
            ELSE LET Then(s2) ==
                         IF s2.panicked \/ s2.error.is_error THEN s2 ELSE Loop(s2)
                 IN Then(scan_token([s1 EXCEPT !.start = s1.current]))
        Then(s1) ==
            Scanned(CASE s1.panicked -> "Panic"
                      [] s1.error.is_error -> "Err"
                      [] OTHER -> "Ok", s1)
    IN Then(Loop(sc))

----------------------------------------------------------------------------
(* parser.rs.  p is the Parser: tokens, current (from 0), had_error, plus  *)
(* `reported`, the errors LoxResult::parse_error printed, and `next_id`,   *)
(* the identity of the next node allocated.  A rule returns Ok(node),      *)
(* Err(error) or panics, with the parser it leaves behind.                 *)

ParserNew(tokens) ==
    [tokens |-> tokens, current |-> 0, had_error |-> FALSE, reported |-> << >>,
     next_id |-> 1]

Parsed(k, v, p) == [k |-> k, v |-> v, p |-> p]

\* tokens.get(current) is Some: peek() does not panic
ParserInRange(p) == p.current < Len(p.tokens)

ParserPeek(p) == p.tokens[p.current + 1]

ParserIsAtEnd(p) == ParserPeek(p).token_type = "EOF"

\* check for one of the token types (is_match is a check followed by advance)
ParserCheck(p, token_types) ==
    ~ParserIsAtEnd(p) /\ ParserPeek(p).token_type \in token_types

\* advance, without the previous() it returns
ParserAdvance(p) ==
    IF ParserIsAtEnd(p) THEN p ELSE [p EXCEPT !.current = @ + 1]

ParserPrevious(p) == p.tokens[p.current]

\* LoxResult::parse_error reports the error; Parser::error also sets had_error
ParseError(p, token, message) ==
    [p EXCEPT !.reported = Append(@, [token |-> token, message |-> message])]

ParserError(p, token, message) ==
    [ParseError(p, token, message) EXCEPT !.had_error = TRUE]

ParserConsume(p, token_type, message) ==
    IF ~ParserInRange(p) THEN Parsed("Panic", << >>, p)
    ELSE IF ParserCheck(p, {token_type})
         THEN Parsed("Ok", ParserPeek(p), ParserAdvance(p))
         ELSE Parsed("Err", [token |-> ParserPeek(p), message |-> message],
                     ParserError(p, ParserPeek(p), message))

RECURSIVE ParserSynchronize(_)
\* the loop of synchronize; p is the parser after its first advance
ParserSynchronize(p) ==
    IF ParserIsAtEnd(p) THEN p
    ELSE IF ParserPrevious(p).token_type = "Semicolon" THEN p
    ELSE IF ParserPeek(p).token_type \in
                {"Class", "Fun", "Var", "For", "If", "While", "Print", "Return"}
         THEN p
    ELSE ParserSynchronize(ParserAdvance(p))

\* or, and, equality, comparison, term, factor: each a loop over its
\* operators whose operands are parsed by the next rule
BinaryRules ==
    << [rule |-> "or", operators |-> {"Or"}],
       [rule |-> "and", operators |-> {"And"}],
       [rule |-> "equality", operators |-> {"BangEqual", "EqualEqual"}],
       [rule |-> "comparison",
        operators |-> {"Greater", "GreaterEqual", "Less", "LessEqual"}],
       [rule |-> "term", operators |-> {"Minus", "Plus"}],
       [rule |-> "factor", operators |-> {"Star", "Slash"}] >>

RECURSIVE ParseRule(_, _, _)
\* the rules of the grammar; x is the argument of the rule (the kind of a
\* function, the level of a binary rule) or what a loop has built so far
ParseRule(rule, p, x) ==
    IF ~ParserInRange(p) THEN Parsed("Panic", << >>, p)
    ELSE CASE rule = "declaration" ->
           LET Sync(result) ==
                   IF result.k = "Err"
                   THEN [result EXCEPT !.p = ParserSynchronize(ParserAdvance(@))]
                   ELSE result
           IN Sync(IF ParserCheck(p, {"Class"})
                   THEN ParseRule("class_declaration", ParserAdvance(p), << >>)
                   ELSE IF ParserCheck(p, {"Fun"})
                   THEN ParseRule("function", ParserAdvance(p), "function")
                   ELSE IF ParserCheck(p, {"Var"})
                   THEN ParseRule("var_declaration", ParserAdvance(p), << >>)
                   ELSE ParseRule("statement", p, << >>))
      [] rule = "class_declaration" ->
           LET End(name, methods, brace) ==
                   IF brace.k # "Ok" THEN brace
                   ELSE Parsed("Ok", ClassStmt(name.v, << >>, methods.v), brace.p)
               Methods(name, methods) ==
                   IF methods.k # "Ok" THEN methods
                   ELSE End(name, methods,
                            ParserConsume(methods.p, "RightBrace",
                                          "Expect '}}' after class body."))
               Brace(name, brace) ==
                   IF brace.k # "Ok" THEN brace
                   ELSE Methods(name, ParseRule("methods", brace.p, << >>))
               Name(name) ==
                   IF name.k # "Ok" THEN name
                   ELSE Brace(name, ParserConsume(name.p, "LeftBrace",
                                                  "Expect '{{' before class body."))
           IN Name(ParserConsume(p, "Identifier", "Expect class name."))
      [] rule = "methods" ->
           LET Then(method) ==
                   IF method.k # "Ok" THEN method
                   ELSE ParseRule("methods", method.p, Append(x, method.v))
           IN IF ~ParserCheck(p, {"RightBrace"}) /\ ~ParserIsAtEnd(p)
              THEN Then(ParseRule("function", p, "method"))
              ELSE Parsed("Ok", x, p)
      [] rule = "statement" ->
           LET Block(statements) ==
                   IF statements.k # "Ok" THEN statements
                   ELSE Parsed("Ok", BlockStmt(statements.v), statements.p)
           IN IF ParserCheck(p, {"For"})
              THEN ParseRule("for_statement", ParserAdvance(p), << >>)
              ELSE IF ParserCheck(p, {"If"})
              THEN ParseRule("if_statement", ParserAdvance(p), << >>)
              ELSE IF ParserCheck(p, {"Print"})
              THEN ParseRule("print_statement", ParserAdvance(p), << >>)
              ELSE IF ParserCheck(p, {"Return"})
              THEN ParseRule("return_statement", ParserAdvance(p), << >>)
              ELSE IF ParserCheck(p, {"While"})
              THEN ParseRule("while_statement", ParserAdvance(p), << >>)
              ELSE IF ParserCheck(p, {"LeftBrace"})
              THEN Block(ParseRule("block", ParserAdvance(p), << >>))
              ELSE ParseRule("expression_statement", p, << >>)
      [] rule = "for_statement" ->
           LET Build(initializer, condition, increment, body) ==
                   LET stepped == IF increment.v = << >> THEN body.v
                                  ELSE BlockStmt(<< body.v, ExpressionStmt(increment.v[1]) >>)
                       loop == WhileStmt(condition.v, stepped)
                   IN Parsed("Ok",
                             IF initializer.v = << >> THEN loop
                             ELSE BlockStmt(<< initializer.v[1], loop >>),
                             body.p)
               Body(initializer, condition, increment, paren) ==
                   LET Then(body) ==
                           IF body.k # "Ok" THEN body
                           ELSE Build(initializer, condition, increment, body)
                   IN IF paren.k # "Ok" THEN paren
                      ELSE Then(ParseRule("statement", paren.p, << >>))
               Increment(initializer, condition, semicolon) ==
                   LET Then(increment) ==
                           IF increment.k # "Ok" THEN increment
                           ELSE Body(initializer, condition, increment,
                                     ParserConsume(increment.p, "RightParen",
                                                   "Expect ')' after for clauses"))
                       Some(e) == IF e.k # "Ok" THEN e ELSE Parsed("Ok", << e.v >>, e.p)
                   IN IF semicolon.k # "Ok" THEN semicolon
                      ELSE IF ~ParserInRange(semicolon.p)
                      THEN Parsed("Panic", << >>, semicolon.p)
                      ELSE IF ~ParserCheck(semicolon.p, {"RightParen"})
                      THEN Then(Some(ParseRule("expression", semicolon.p, << >>)))
                      ELSE Then(Parsed("Ok", << >>, semicolon.p))
               Condition(initializer) ==
                   LET Then(condition) ==
                           IF condition.k # "Ok" THEN condition
                           ELSE Increment(initializer, condition,
                                          ParserConsume(condition.p, "Semicolon",
                                                        "Expect ';' after loop condition"))
                   IN IF initializer.k # "Ok" THEN initializer
                      ELSE IF ~ParserInRange(initializer.p)
                      THEN Parsed("Panic", << >>, initializer.p)
                      ELSE IF ~ParserCheck(initializer.p, {"Semicolon"})
                      THEN Then(ParseRule("expression", initializer.p, << >>))
                      ELSE Then(Parsed("Ok", LiteralExpr(ObjectBool(TRUE)), initializer.p))
               Initializer(paren) ==
                   LET Some(s) == IF s.k # "Ok" THEN s ELSE Parsed("Ok", << s.v >>, s.p)
                   IN IF paren.k # "Ok" THEN paren
                      ELSE IF ~ParserInRange(paren.p) THEN Parsed("Panic", << >>, paren.p)
                      ELSE IF ParserCheck(paren.p, {"Semicolon"})
                      THEN Condition(Parsed("Ok", << >>, ParserAdvance(paren.p)))
                      ELSE IF ParserCheck(paren.p, {"Var"})
                      THEN Condition(Some(ParseRule("var_declaration",
                                                    ParserAdvance(paren.p), << >>)))
                      ELSE Condition(Some(ParseRule("expression_statement", paren.p, << >>)))
           IN Initializer(ParserConsume(p, "LeftParen", "Expect '(' after 'for'."))
      [] rule = "if_statement" ->
           LET Else(condition, then_branch) ==
                   LET Some(s) ==
                           IF s.k # "Ok" THEN s
                           ELSE Parsed("Ok", IfStmt(condition.v, then_branch.v, << s.v >>), s.p)
                   IN IF then_branch.k # "Ok" THEN then_branch
                      ELSE IF ~ParserInRange(then_branch.p)
                      THEN Parsed("Panic", << >>, then_branch.p)
                      ELSE IF ParserCheck(then_branch.p, {"Else"})
                      THEN Some(ParseRule("statement", ParserAdvance(then_branch.p), << >>))
                      ELSE Parsed("Ok", IfStmt(condition.v, then_branch.v, << >>),
                                  then_branch.p)
               Closing(condition, paren) ==
                   IF paren.k # "Ok" THEN paren
                   ELSE Else(condition, ParseRule("statement", paren.p, << >>))
               Condition(condition) ==
                   IF condition.k # "Ok" THEN condition
                   ELSE Closing(condition, ParserConsume(condition.p, "RightParen",
                                                       "Expect ')' after if condition."))
               Open(paren) ==
                   IF paren.k # "Ok" THEN paren
                   ELSE Condition(ParseRule("expression", paren.p, << >>))
           IN Open(ParserConsume(p, "LeftParen", "Expect '(' after 'if'."))
      [] rule = "print_statement" ->
           LET End(value, semicolon) ==
                   IF semicolon.k # "Ok" THEN semicolon
                   ELSE Parsed("Ok", PrintStmt(value.v), semicolon.p)
               Value(value) ==
                   IF value.k # "Ok" THEN value
                   ELSE End(value, ParserConsume(value.p, "Semicolon",
                                                 "Expect ';' after value."))
           IN Value(ParseRule("expression", p, << >>))
      [] rule = "return_statement" ->
           LET End(value, semicolon) ==
                   IF semicolon.k # "Ok" THEN semicolon
                   ELSE Parsed("Ok", ReturnStmt(ParserPrevious(p), value.v), semicolon.p)
               Value(value) ==
                   IF value.k # "Ok" THEN value
                   ELSE End(value, ParserConsume(value.p, "Semicolon",
                                                 "Expect ';' after return value."))
               Some(e) == IF e.k # "Ok" THEN e ELSE Parsed("Ok", << e.v >>, e.p)
           IN IF ~ParserCheck(p, {"Semicolon"})
              THEN Value(Some(ParseRule("expression", p, << >>)))
              ELSE Value(Parsed("Ok", << >>, p))
      [] rule = "var_declaration" ->
           LET End(name, initializer, semicolon) ==
                   IF semicolon.k # "Ok" THEN semicolon
                   ELSE Parsed("Ok", VarStmt(name.v, initializer.v), semicolon.p)
               Initializer(name, initializer) ==
                   IF initializer.k # "Ok" THEN initializer
                   ELSE End(name, initializer,
                            ParserConsume(initializer.p, "Semicolon",
                                          "Expect ';' after variable declaration."))
               Some(e) == IF e.k # "Ok" THEN e ELSE Parsed("Ok", << e.v >>, e.p)
               Name(name) ==
                   IF name.k # "Ok" THEN name
                   ELSE IF ~ParserInRange(name.p) THEN Parsed("Panic", << >>, name.p)
                   ELSE IF ParserCheck(name.p, {"Equal"})
                   THEN Initializer(name, Some(ParseRule("expression",
                                                         ParserAdvance(name.p), << >>)))
                   ELSE Initializer(name, Parsed("Ok", << >>, name.p))
           IN Name(ParserConsume(p, "Identifier", "Expect variable name."))
      [] rule = "while_statement" ->
           LET Body(condition, body) ==
                   IF body.k # "Ok" THEN body
                   ELSE Parsed("Ok", WhileStmt(condition.v, body.v), body.p)
               Closing(condition, paren) ==
                   IF paren.k # "Ok" THEN paren
                   ELSE Body(condition, ParseRule("statement", paren.p, << >>))
               Condition(condition) ==
                   IF condition.k # "Ok" THEN condition
                   ELSE Closing(condition, ParserConsume(condition.p, "RightParen",
                                                       "Expect ')' after condition."))
               Open(paren) ==
                   IF paren.k # "Ok" THEN paren
                   ELSE Condition(ParseRule("expression", paren.p, << >>))
           IN Open(ParserConsume(p, "LeftParen", "Expect '(' after 'while'."))
      [] rule = "expression_statement" ->
           LET End(expr, semicolon) ==
                   IF semicolon.k # "Ok" THEN semicolon
                   ELSE Parsed("Ok", ExpressionStmt(expr.v), semicolon.p)
               Value(expr) ==
                   IF expr.k # "Ok" THEN expr
                   ELSE End(expr, ParserConsume(expr.p, "Semicolon",
                                                "Expect ';' after expression."))
           IN Value(ParseRule("expression", p, << >>))
      [] rule = "function" ->
           LET Body(name, params, body) ==
                   IF body.k # "Ok" THEN body
                   ELSE Parsed("Ok", FunctionStmt(body.p.next_id, name.v, params.v, body.v),
                               [body.p EXCEPT !.next_id = @ + 1])
               Brace(name, params, brace) ==
                   IF brace.k # "Ok" THEN brace
                   ELSE Body(name, params, ParseRule("block", brace.p, << >>))
               Close(name, params, paren) ==
                   IF paren.k # "Ok" THEN paren
                   ELSE Brace(name, params,
                              ParserConsume(paren.p, "LeftBrace",
                                            "Expect '{' before " \o x \o " body."))
               Params(name, params) ==
                   IF params.k # "Ok" THEN params
                   ELSE Close(name, params,
                              ParserConsume(params.p, "RightParen",
                                            "Expect ')' after parameters."))
               First(name, param) ==
                   IF param.k # "Ok" THEN param
                   ELSE Params(name, ParseRule("params", param.p, << param.v >>))
               Open(name, paren) ==
                   IF paren.k # "Ok" THEN paren
                   ELSE IF ~ParserInRange(paren.p) THEN Parsed("Panic", << >>, paren.p)
                   ELSE IF ~ParserCheck(paren.p, {"RightParen"})
                   THEN First(name, ParserConsume(paren.p, "Identifier",
                                                  "Expect parameter name."))
                   ELSE Params(name, Parsed("Ok", << >>, paren.p))
               Name(name) ==
                   IF name.k # "Ok" THEN name
                   ELSE Open(name, ParserConsume(name.p, "LeftParen",
                                                 "Expect '(' after " \o x \o " name."))
           IN Name(ParserConsume(p, "Identifier", "Expect " \o x \o " name."))
      [] rule = "params" ->
           LET Then(param) ==
                   IF param.k # "Ok" THEN param
                   ELSE ParseRule("params", param.p, Append(x, param.v))
               Comma(q) ==
                   IF ~ParserInRange(q) THEN Parsed("Panic", << >>, q)
                   ELSE Then(ParserConsume(
                                 IF Len(x) >= 255
                                 THEN ParserError(q, ParserPeek(q),
                                                  "You can't have more than 255 parameters.")
                                 ELSE q,
                                 "Identifier", "Expect parameter name."))
           IN IF ParserCheck(p, {"Comma"}) THEN Comma(ParserAdvance(p))
              ELSE Parsed("Ok", x, p)
      [] rule = "block" ->
           LET Then(statement) ==
                   IF statement.k # "Ok" THEN statement
                   ELSE ParseRule("block", statement.p, Append(x, statement.v))
               End(brace) ==
                   IF brace.k # "Ok" THEN brace ELSE Parsed("Ok", x, brace.p)
           IN IF ~ParserCheck(p, {"RightBrace"}) /\ ~ParserIsAtEnd(p)
              THEN Then(ParseRule("declaration", p, << >>))
              ELSE End(ParserConsume(p, "RightBrace", "Expect '}' after block."))
      [] rule = "expression" -> ParseRule("assignment", p, << >>)
      [] rule = "assignment" ->
           LET Target(expr, equals, value) ==
                   IF value.k # "Ok" THEN value
                   ELSE IF expr.v.e = "Variable"
                   THEN Parsed("Ok", AssignExpr(value.p.next_id, expr.v.name, value.v),
                               [value.p EXCEPT !.next_id = @ + 1])
                   ELSE IF expr.v.e = "Get"
                   THEN Parsed("Ok", SetExpr(expr.v.object, expr.v.name, value.v), value.p)
                   ELSE Parsed("Ok", expr.v,
                               ParserError(value.p, equals, "Invalid assignment target"))
               Then(expr) ==
                   IF expr.k # "Ok" THEN expr
                   ELSE IF ~ParserInRange(expr.p) THEN Parsed("Panic", << >>, expr.p)
                   ELSE IF ParserCheck(expr.p, {"Equal"})
                   THEN Target(expr, ParserPeek(expr.p),
                               ParseRule("assignment", ParserAdvance(expr.p), << >>))
                   ELSE expr
           IN Then(ParseRule("binary", p, [level |-> 1, left |-> << >>]))
      [] rule = "binary" ->
           LET Operand(q) ==
                   IF x.level = Len(BinaryRules) THEN ParseRule("unary", q, << >>)
                   ELSE ParseRule("binary", q, [level |-> x.level + 1, left |-> << >>])
               First(expr) ==
                   IF expr.k # "Ok" THEN expr
                   ELSE ParseRule("binary", expr.p, [x EXCEPT !.left = << expr.v >>])
               Next_(operator, right) ==
                   IF right.k # "Ok" THEN right
                   ELSE ParseRule("binary", right.p,
                                  [x EXCEPT !.left =
                                       << IF x.level <= 2
                                          THEN LogicalExpr(x.left[1], operator, right.v)
                                          ELSE BinaryExpr(x.left[1], operator, right.v) >>])
           IN IF x.left = << >> THEN First(Operand(p))
              ELSE IF ParserCheck(p, BinaryRules[x.level].operators)
              THEN Next_(ParserPeek(p), Operand(ParserAdvance(p)))
              ELSE Parsed("Ok", x.left[1], p)
      [] rule = "unary" ->
           LET Then(operator, right) ==
                   IF right.k # "Ok" THEN right
                   ELSE Parsed("Ok", UnaryExpr(operator, right.v), right.p)
           IN IF ParserCheck(p, {"Bang", "Minus"})
              THEN Then(ParserPeek(p), ParseRule("unary", ParserAdvance(p), << >>))
              ELSE ParseRule("call", p, << >>)
      [] rule = "call" ->
           LET Called(expr) ==
                   IF expr.k # "Ok" THEN expr ELSE ParseRule("call", expr.p, << expr.v >>)
               Property(name) ==
                   IF name.k # "Ok" THEN name
                   ELSE ParseRule("call", name.p, << GetExpr(x[1], name.v) >>)
           IN IF x = << >> THEN Called(ParseRule("primary", p, << >>))
              ELSE IF ParserCheck(p, {"LeftParen"})
              THEN Called(ParseRule("finish_call", ParserAdvance(p), x[1]))
              ELSE IF ParserCheck(p, {"Dot"})
              THEN Property(ParserConsume(ParserAdvance(p), "Identifier",
                                          "Expect property name after '.'."))
              ELSE Parsed("Ok", x[1], p)
      [] rule = "finish_call" ->
           LET End(arguments, paren) ==
                   IF paren.k # "Ok" THEN paren
                   ELSE Parsed("Ok", CallExpr(x, paren.v, arguments.v), paren.p)
               Arguments(arguments) ==
                   IF arguments.k # "Ok" THEN arguments
                   ELSE End(arguments, ParserConsume(arguments.p, "RightParen",
                                                     "Expect ')' after arguments."))
               First(argument) ==
                   IF argument.k # "Ok" THEN argument
                   ELSE Arguments(ParseRule("arguments", argument.p, << argument.v >>))
           IN IF ~ParserCheck(p, {"RightParen"})
              THEN First(ParseRule("expression", p, << >>))
              ELSE Arguments(Parsed("Ok", << >>, p))
      [] rule = "arguments" ->
           LET Then(argument) ==
                   IF argument.k # "Ok" THEN argument
                   ELSE ParseRule("arguments", argument.p, Append(x, argument.v))
               Comma(q) ==
                   IF ~ParserInRange(q) THEN Parsed("Panic", << >>, q)
                   ELSE Then(ParseRule("expression",
                                       IF Len(x) >= 255
                                       THEN ParserError(q, ParserPeek(q),
                                                        "You can't have more than 255 arguments.")
                                       ELSE q,
                                       << >>))
           IN IF ParserCheck(p, {"Comma"}) THEN Comma(ParserAdvance(p))
              ELSE Parsed("Ok", x, p)
      [] rule = "primary" ->
           LET Grouping(expr) ==
                   LET End(paren) ==
                           IF paren.k # "Ok" THEN paren
                           ELSE Parsed("Ok", GroupingExpr(expr.v), paren.p)
                   IN IF expr.k # "Ok" THEN expr
                      ELSE End(ParserConsume(expr.p, "RightParen",
                                             "Expect ')' after expression."))
           IN IF ParserCheck(p, {"False"})
              THEN Parsed("Ok", LiteralExpr(ObjectBool(FALSE)), ParserAdvance(p))
              ELSE IF ParserCheck(p, {"True"})
              THEN Parsed("Ok", LiteralExpr(ObjectBool(TRUE)), ParserAdvance(p))
              ELSE IF ParserCheck(p, {"Nil"})
              THEN Parsed("Ok", LiteralExpr(ObjectNil), ParserAdvance(p))
              ELSE IF ParserCheck(p, {"StringLiteral", "NumberLiteral"})
              THEN Parsed("Ok", LiteralExpr(ParserPeek(p).literal[1]), ParserAdvance(p))
              ELSE IF ParserCheck(p, {"Identifier"})
              THEN Parsed("Ok", VariableExpr(p.next_id, ParserPeek(p)),
                          [ParserAdvance(p) EXCEPT !.next_id = @ + 1])
              ELSE IF ParserCheck(p, {"LeftParen"})
              THEN Grouping(ParseRule("expression", ParserAdvance(p), << >>))
              ELSE Parsed("Err", [token |-> ParserPeek(p), message |-> "Expect Expression"],
                          ParseError(p, ParserPeek(p), "Expect Expression"))

\* parse: a declaration that fails ends the loop with its error
parse(p) ==
    LET RECURSIVE Loop(_, _)
        Loop(q, statements) ==
            IF ~ParserInRange(q) THEN Parsed("Panic", << >>, q)
            ELSE IF ParserIsAtEnd(q) THEN Parsed("Ok", statements, q)
            ELSE LET Then(declaration) ==
                         IF declaration.k # "Ok" THEN declaration
                         ELSE Loop(declaration.p, Append(statements, declaration.v))
                 IN Then(ParseRule("declaration", q, << >>))
    IN Loop(p, << >>)

----------------------------------------------------------------------------
(* The programs the model runs: the scenarios of the language (closures,   *)
(* shadowing, blocks, returns, calls, classes, logic, equality), each      *)
(* written as the AST the parser builds, with its parameters drawn from    *)
(* small sets.                                                             *)

MaxDepth == 2     \* deepest nesting of blocks around a statement
MaxArgs == 2      \* most arguments passed at a call site
MaxClock == 0     \* latest time the clock reads
MaxNum == 2       \* largest number used as an operand
MaxFib == 3       \* largest argument of fib

Num(n) == LiteralExpr(ObjectNum(n))
Str(c) == LiteralExpr(ObjectStr(c))
Bool(b) == LiteralExpr(ObjectBool(b))
NilLit == LiteralExpr(ObjectNil)
Var(id, lexeme) == VariableExpr(id, Ident(lexeme, 1))
Paren(line) == Token("RightParen", ")", line)
Call(callee, line, arguments) == CallExpr(callee, Paren(line), arguments)
Op(token_type) == Token(token_type, token_type, 1)
Return(value) == ReturnStmt(Token("Return", "return", 1), value)
Fun(id, lexeme, params, body) ==
    FunctionStmt(id, Ident(lexeme, 1), [i \in DOMAIN params |-> Ident(params[i], 1)], body)
Let(lexeme, value) == VarStmt(Ident(lexeme, 1), << value >>)
Program(name, statements) == [name |-> name, statements |-> statements]

RECURSIVE Nest(_, _)
\* a statement inside `depth` blocks
Nest(statement, depth) ==
    IF depth = 0 THEN statement ELSE BlockStmt(<< Nest(statement, depth - 1) >>)

\* fun makeCounter() { var i = 0; fun count() { i = i + 1; return i; } return count; }
\* var c = makeCounter(); print c(); print c(); print c();
CounterProgram ==
    Program("counter",
      << Fun(1, "makeCounter", <<>>,
           << Let("i", Num(0)),
              Fun(2, "count", <<>>,
                << ExpressionStmt(AssignExpr(11, Ident("i", 1),
                                   BinaryExpr(Var(12, "i"), Op("Plus"), Num(1)))),
                   Return(<< Var(13, "i") >>) >>),
              Return(<< Var(14, "count") >>) >>),
         Let("c", Call(Var(15, "makeCounter"), 1, <<>>)),
         PrintStmt(Call(Var(16, "c"), 1, <<>>)),
         PrintStmt(Call(Var(17, "c"), 1, <<>>)),
         PrintStmt(Call(Var(18, "c"), 1, <<>>)) >>)

\* var a = g; { fun show() { print a; } show(); var a = l; show(); }
ShadowProgram(g, l) ==
    Program("shadow",
      << Let("a", Str(g)),
         BlockStmt(<< Fun(1, "show", <<>>, << PrintStmt(Var(11, "a")) >>),
                      ExpressionStmt(Call(Var(12, "show"), 1, <<>>)),
                      Let("a", Str(l)),
                      ExpressionStmt(Call(Var(13, "show"), 1, <<>>)) >>),
         PrintStmt(Var(14, "a")) >>)

\* a statement that ends normally, by a runtime error or by a return, inside
\* `depth` blocks, at top level and inside a function body (after a return in
\* the function, the top level goes on to a runtime error)
BlocksProgram(kind, depth) ==
    LET inner == CASE kind = "ok" -> PrintStmt(Num(1))
                   [] kind = "error" ->
                        ExpressionStmt(BinaryExpr(Num(1), Op("Plus"), NilLit))
                   [] kind = "undefined" -> PrintStmt(Var(11, "missing"))
                   [] kind = "return" -> Return(<< Num(7) >>)
    IN Program("blocks",
         << Fun(1, "f", <<>>, << Nest(inner, depth), PrintStmt(Num(3)) >>),
            Nest(PrintStmt(Call(Var(12, "f"), 1, <<>>)), depth),
            IF kind = "return"
            THEN Nest(ExpressionStmt(BinaryExpr(Num(1), Op("Plus"), NilLit)), depth)
            ELSE Nest(inner, depth),
            PrintStmt(Num(5)) >>)

\* fun f(n) { while (true) if (n) {{ return v; print "x"; }} else return 0; print "end"; }
\* print f(n); fun g() { print "g"; } print g();
ReturnProgram(n, v, depth) ==
    Program("return",
      << Fun(1, "f", << "n" >>,
           << WhileStmt(Bool(TRUE),
                IfStmt(Var(11, "n"),
                       Nest(BlockStmt(<< Return(<< LiteralExpr(v) >>),
                                         PrintStmt(Str("x")) >>), depth),
                       << Return(<< Num(0) >>) >>)),
              PrintStmt(Str("end")) >>),
         PrintStmt(Call(Var(12, "f"), 1, << LiteralExpr(n) >>)),
         Fun(2, "g", <<>>, << IfStmt(LiteralExpr(n), PrintStmt(Str("g")), <<>>) >>),
         PrintStmt(Call(Var(13, "g"), 1, <<>>)) >>)

\* a call of `callee` with argc arguments:
\* fun f0() {..}  fun f1(a) {..}  fun f2(a, b) {..}  class A {}
\* class B { init(a) {..} }  class C < B {}  clock  num_to_str
ArityProgram(callee, argc) ==
    LET body == << PrintStmt(Str("body")) >>
        declaration ==
            CASE callee = "f0" -> << Fun(1, "f0", <<>>, body) >>
              [] callee = "f1" -> << Fun(1, "f1", << "a" >>, body) >>
              [] callee = "f2" -> << Fun(1, "f2", << "a", "b" >>, body) >>
              [] callee = "A" -> << ClassStmt(Ident("A", 1), <<>>, <<>>) >>
              [] callee = "B" ->
                   << ClassStmt(Ident("B", 1), <<>>, << Fun(1, "init", << "a" >>, body) >>) >>
              [] callee = "C" ->
                   << ClassStmt(Ident("B", 1), <<>>, << Fun(1, "init", << "a" >>, body) >>),
                      ClassStmt(Ident("C", 2), << Var(11, "B") >>, <<>>) >>
              [] OTHER -> <<>>
    IN Program("arity",
         declaration \o
         << Let("r", Call(Var(12, callee), 7, [i \in 1..argc |-> Num(i)])),
            PrintStmt(Str("after")) >>)

\* class P { init(a) { body } }  [class Q < P {}]
\* var p = P(1);  var q = p.init(2);  print q == p;
InitProgram(body, inherited) ==
    LET statements ==
            CASE body = "empty" -> <<>>
              [] body = "bare" -> << Return(<<>>) >>
              [] body = "print" -> << PrintStmt(Var(11, "a")) >>
              [] body = "cond" -> << IfStmt(Var(11, "a"), Return(<<>>), <<>>),
                                    PrintStmt(Str("falsy")) >>
              [] body = "nested" -> << Nest(Return(<<>>), 1), PrintStmt(Str("late")) >>
    IN Program("init",
         << ClassStmt(Ident("P", 1), <<>>, << Fun(1, "init", << "a" >>, statements) >>) >>
         \o (IF inherited THEN << ClassStmt(Ident("Q", 2), << Var(12, "P") >>, <<>>) >>
             ELSE <<>>)
         \o << Let("p", Call(Var(13, IF inherited THEN "Q" ELSE "P"), 3, << Num(1) >>)),
               Let("q", Call(GetExpr(Var(14, "p"), Ident("init", 4)), 4, << Num(2) >>)),
               PrintStmt(BinaryExpr(Var(15, "q"), Op("EqualEqual"), Var(16, "p"))) >>)

\* var n = 0;  var r = left op (n = 1);  print r;  print n;
LogicProgram(operator, left) ==
    Program("logic",
      << Let("n", Num(0)),
         Let("r", LogicalExpr(LiteralExpr(left), Op(operator),
                              AssignExpr(11, Ident("n", 1), Num(1)))),
         PrintStmt(Var(12, "r")),
         PrintStmt(Var(13, "n")) >>)

\* comparisons with == of instances, classes, functions, natives and bound methods
EqProgram(kind, v, w) ==
    LET Eq(l, r) == PrintStmt(BinaryExpr(l, Op("EqualEqual"), r))
        classA == ClassStmt(Ident("A", 1), <<>>, <<>>)
        classM == ClassStmt(Ident("A", 1), <<>>, << Fun(1, "m", <<>>, <<>>) >>)
        new(id) == Call(Var(id, "A"), 1, <<>>)
    IN Program("eq",
         CASE kind = "instances" ->
                << classA, Let("x", new(11)), Let("y", new(12)),
                   ExpressionStmt(SetExpr(Var(13, "x"), Ident("f", 1), Num(v))),
                   ExpressionStmt(SetExpr(Var(14, "y"), Ident("f", 1), Num(w))),
                   Eq(Var(15, "x"), Var(16, "y")), Eq(Var(17, "x"), Var(18, "x")) >>
           [] kind = "classes" ->
                << classA, Let("c", Var(11, "A")),
                   IF v = w THEN classA ELSE classM,
                   Eq(Var(12, "c"), Var(13, "A")), Eq(Var(14, "c"), Var(15, "c")) >>
           [] kind = "functions" ->
                << Fun(1, "f", <<>>, <<>>), Fun(2, "g", <<>>, <<>>),
                   Eq(Var(11, "f"), Var(12, IF v = w THEN "f" ELSE "g")) >>
           [] kind = "natives" ->
                << Eq(Var(11, "clock"), Var(12, IF v = w THEN "clock" ELSE "num_to_str")) >>
           [] kind = "methods" ->
                << classM, Let("x", new(11)), Let("y", new(12)),
                   Eq(GetExpr(Var(13, "x"), Ident("m", 1)),
                      GetExpr(Var(14, IF v = w THEN "x" ELSE "y"), Ident("m", 1))) >>)

\* the values used as operands
Operands ==
    {ObjectNum(n) : n \in 0..MaxNum}
    \cup {ObjectStr("a"), ObjectStr("b"), ObjectBool(TRUE), ObjectNil}

BinaryOperators ==
    {"Star", "Slash", "Minus", "Plus", "Greater", "GreaterEqual", "Less", "LessEqual"}

\* a quotient the model's integers can hold
Exact(operator, left, right) ==
    (operator = "Slash" /\ left.t = "Num" /\ right.t = "Num" /\ right.v # 0)
        => left.v % right.v = 0

\* print left operator right;  print "after";
BinaryProgram(operator, left, right) ==
    Program("binary",
      << PrintStmt(BinaryExpr(LiteralExpr(left), Token(operator, operator, 5),
                              LiteralExpr(right))),
         PrintStmt(Str("after")) >>)

\* the name `a` declared twice, each time by var, fun, class or as a parameter:
\*   { var a = 1; fun a() { return 2; } }      in a block
\*   fun f(a, a) { }   fun f(a) { var a = 2; }  in the scope of a function
\*   var a = 1; class a { }                     at the top level
DeclareProgram(first, second, scope) ==
    LET Decl(kind, n) ==
            CASE kind = "var" -> Let("a", Num(n))
              [] kind = "fun" -> Fun(n, "a", <<>>, << Return(<< Num(n) >>) >>)
              [] kind = "class" -> ClassStmt(Ident("a", n), <<>>, <<>>)
    IN Program("declare",
         CASE first = "param" /\ second = "param" ->
                << Fun(3, "f", << "a", "a" >>, <<>>) >>
           [] first = "param" -> << Fun(3, "f", << "a" >>, << Decl(second, 2) >>) >>
           [] scope = "local" -> << BlockStmt(<< Decl(first, 1), Decl(second, 2) >>) >>
           [] OTHER -> << Decl(first, 1), Decl(second, 2) >>)

\* a local read in its own initializer, with an outer `a` at the top level, in
\* the enclosing block, or nowhere:  var a = 1; { var a = a; print a; }
SelfInitProgram(outer, form) ==
    LET use == VariableExpr(11, Ident("a", 3))
        initializer ==
            CASE form = "bare" -> use
              [] form = "grouping" -> GroupingExpr(use)
              [] form = "binary" -> BinaryExpr(Num(1), Op("Plus"), use)
              [] form = "call" -> Call(Var(13, "clock"), 3, << use >>)
        inner == BlockStmt(<< VarStmt(Ident("a", 2), << initializer >>),
                              PrintStmt(Var(12, "a")) >>)
    IN Program("selfinit",
         CASE outer = "global" -> << Let("a", Num(1)), inner >>
           [] outer = "local" -> << BlockStmt(<< Let("a", Num(1)), inner >>) >>
           [] OTHER -> << inner >>)

\* classes, methods, fields and super:
\*   super_greet       class A { m() { print "A"; } }
\*                     class B < A { m() { super.m(); print "B"; } }   B().m();
\*   super_receiver    the same with  class C < B { }   C().m();
\*   super_missing     class B < A { m() { super.x(); } }   B().m();
\*   property_field    class A { n() { print "A.n"; } }   class B < A { }
\*                     var a = B(); var b = B();  a.n = 1;  print a.n;  b.n();
\*                     a.m = 2;  a.m = 3;  print a.m;  var g = b.n;  g();
\*   property_override class A { n() .. "A.n" }  class B < A { n() .. "B.n" }
\*                     class C < B { }   C().n();  A().n();
\*   property_undefined   class A { }  var a = A(); var b = A();  a.m = 2;  print b.m;
ClassProgram(kind) ==
    LET Class(name, superclass, methods) ==
            ClassStmt(Ident(name, 1),
                      IF superclass = "" THEN <<>> ELSE << Var(1, superclass) >>, methods)
        Says(id, name, text) == Fun(id, name, <<>>, << PrintStmt(Str(text)) >>)
        Super(name) ==
            ExpressionStmt(Call(SuperExpr(21, Token("Super", "super", 2), Ident(name, 2)),
                                2, <<>>))
        New(id, name) == Call(Var(id, name), 3, <<>>)
        Invoke(object, name) == ExpressionStmt(Call(GetExpr(object, Ident(name, 4)), 4, <<>>))
        Set(id, object, name, n) ==
            ExpressionStmt(SetExpr(Var(id, object), Ident(name, 5), Num(n)))
        Get(id, object, name) == PrintStmt(GetExpr(Var(id, object), Ident(name, 6)))
        after == PrintStmt(Str("after"))
    IN Program(kind,
         CASE kind = "super_greet" ->
                << Class("A", "", << Says(2, "m", "A") >>),
                   Class("B", "A", << Fun(3, "m", <<>>, << Super("m"), PrintStmt(Str("B")) >>) >>),
                   Invoke(New(11, "B"), "m"), after >>
           [] kind = "super_receiver" ->
                << Class("A", "", << Says(2, "m", "A") >>),
                   Class("B", "A", << Fun(3, "m", <<>>, << Super("m"), PrintStmt(Str("B")) >>) >>),
                   Class("C", "B", <<>>),
                   Invoke(New(11, "C"), "m"), after >>
           [] kind = "super_missing" ->
                << Class("A", "", << Says(2, "m", "A") >>),
                   Class("B", "A", << Fun(3, "m", <<>>, << Super("x"), PrintStmt(Str("B")) >>) >>),
                   Invoke(New(11, "B"), "m"), after >>
           [] kind = "property_field" ->
                << Class("A", "", << Says(2, "n", "A.n") >>),
                   Class("B", "A", <<>>),
                   Let("a", New(11, "B")), Let("b", New(12, "B")),
                   Set(13, "a", "n", 1), Get(14, "a", "n"),
                   Invoke(Var(15, "b"), "n"),
                   Set(16, "a", "m", 2), Set(17, "a", "m", 3), Get(18, "a", "m"),
                   Let("g", GetExpr(Var(19, "b"), Ident("n", 7))),
                   ExpressionStmt(Call(Var(20, "g"), 7, <<>>)) >>
           [] kind = "property_override" ->
                << Class("A", "", << Says(2, "n", "A.n") >>),
                   Class("B", "A", << Says(3, "n", "B.n") >>),
                   Class("C", "B", <<>>),
                   Invoke(New(11, "C"), "n"), Invoke(New(12, "A"), "n") >>
           [] kind = "property_undefined" ->
                << Class("A", "", <<>>),
                   Let("a", New(11, "A")), Let("b", New(12, "A")),
                   Set(13, "a", "m", 2), Get(14, "b", "m"), after >>)


\* the enclosing block:  { var a = 1; { print a; } }
\* var g = 1;  <a statement that fails `depth` blocks deep>;  print "after";
\*   block       {{ print missing; }}
\*   function    fun f() {{ print missing; }}  {{ f(); }}
\*   method      class A { m() {{ print missing; }} }  {{ A().m(); }}
\*   inherited   class A { m() {{ print missing; }} }  class B < A {}  {{ B().m(); }}
\*   superclass  var A = 2;  {{ class B < A {} }}
\*   none        {{ print g; }} at depth 0 (nothing fails)
FailProgram(kind, depth) ==
    LET missing == Nest(PrintStmt(Var(11, "missing")), depth)
        A == ClassStmt(Ident("A", 1), <<>>, << Fun(1, "m", <<>>, << missing >>) >>)
        Invoke(id, lexeme) ==
            Nest(ExpressionStmt(Call(GetExpr(Call(Var(id, lexeme), 3, <<>>), Ident("m", 4)),
                                     4, <<>>)), depth)
    IN Program("fail",
         << Let("g", Num(1)) >>
         \o (CASE kind = "block" -> << missing >>
                [] kind = "function" ->
                     << Fun(1, "f", <<>>, << missing >>),
                        Nest(ExpressionStmt(Call(Var(12, "f"), 2, <<>>)), depth) >>
                [] kind = "method" -> << A, Invoke(12, "A") >>
                [] kind = "inherited" ->
                     << A, ClassStmt(Ident("B", 2), << Var(13, "A") >>, <<>>),
                        Invoke(12, "B") >>
                [] kind = "superclass" ->
                     << Let("A", Num(2)),
                        Nest(ClassStmt(Ident("B", 2), << Var(13, "A") >>, <<>>), depth) >>
                [] kind = "none" -> << PrintStmt(Var(14, "g")) >>)
         \o << PrintStmt(Str("after")) >>)

\* the statements of a later call of interpret:  var later = g;  print later;
LaterProgram ==
    Program("later", << Let("later", Var(97, "g")), PrintStmt(Var(98, "later")) >>)

\* the uses of return, this and super the resolver checks against the
\* function and class it is in; every program ends with { var z = 1; print z; }
ContextKinds ==
    {"return_top", "return_init", "this_top", "this_function", "super_top",
     "super_class", "inherit_self", "after_function", "after_class",
     "after_nested_function", "two_errors",
     "return_function", "return_init_bare", "return_nested", "this_method",
     "super_subclass", "after_nested_class", "method_after_function"}

\* the programs among them that break a rule
ContextErrors ==
    {"return_top", "return_init", "this_top", "this_function", "super_top",
     "super_class", "inherit_self", "after_function", "after_class",
     "after_nested_function", "two_errors"}

ContextProgram(kind) ==
    LET this == ExpressionStmt(ThisExpr(11, Token("This", "this", 2)))
        super == ExpressionStmt(SuperExpr(12, Token("Super", "super", 2), Ident("m", 2)))
        return == Return(<< Num(1) >>)
        Class(lexeme, superclass, methods) ==
            ClassStmt(Ident(lexeme, 1), superclass, methods)
        Method(id, lexeme, body) == Fun(id, lexeme, <<>>, body)
    IN Program("context",
         (CASE kind = "return_top" -> << return >>
            [] kind = "return_init" -> << Class("A", <<>>, << Method(1, "init", << return >>) >>) >>
            [] kind = "this_top" -> << this >>
            [] kind = "this_function" -> << Fun(1, "f", <<>>, << this >>) >>
            [] kind = "super_top" -> << super >>
            [] kind = "super_class" -> << Class("A", <<>>, << Method(1, "m", << super >>) >>) >>
            [] kind = "inherit_self" -> << Class("A", << Var(13, "A") >>, <<>>) >>
            [] kind = "after_function" -> << Fun(1, "f", <<>>, << return >>), return >>
            [] kind = "after_class" ->
                 << Class("A", <<>>, << Method(1, "m", << this >>) >>),
                    ExpressionStmt(ThisExpr(14, Token("This", "this", 3))) >>
            [] kind = "after_nested_function" ->
                 << Class("A", <<>>,
                      << Method(1, "init", << Fun(2, "g", <<>>, << return >>), return >>) >>) >>
            [] kind = "two_errors" -> << this, super >>
            [] kind = "return_function" -> << Fun(1, "f", <<>>, << return >>) >>
            [] kind = "return_init_bare" ->
                 << Class("A", <<>>, << Method(1, "init", << Return(<<>>) >>) >>) >>
            [] kind = "return_nested" ->
                 << Class("A", <<>>,
                      << Method(1, "init", << Fun(2, "g", <<>>, << return >>) >>) >>) >>
            [] kind = "this_method" -> << Class("A", <<>>, << Method(1, "m", << this >>) >>) >>
            [] kind = "super_subclass" ->
                 << Class("A", <<>>, <<>>),
                    Class("B", << Var(13, "A") >>, << Method(1, "m", << super >>) >>) >>
            [] kind = "after_nested_class" ->
                 << Class("A", <<>>, <<>>),
                    Class("B", << Var(13, "A") >>,
                      << Method(1, "m", << Class("C", <<>>, <<>>), super >>) >>) >>
            [] kind = "method_after_function" ->
                 << Class("A", <<>>,
                      << Method(1, "m", << Fun(2, "g", <<>>, <<>>), return >>) >>) >>)
         \o << BlockStmt(<< Let("z", Num(1)), PrintStmt(Var(99, "z")) >>) >>)

\* print -operand;  print "after";      (negated once or twice)
UnaryProgram(times, operand) ==
    LET minus == Token("Minus", "-", 6)
    IN Program("unary",
         << PrintStmt(IF times = 1 THEN UnaryExpr(minus, LiteralExpr(operand))
                      ELSE UnaryExpr(minus, UnaryExpr(minus, LiteralExpr(operand)))),
            PrintStmt(Str("after")) >>)

\* calls and their frames:
\*   fib        fun fib(n) { if (n < 2) return n; return fib(n - 1) + fib(n - 2); }
\*              print fib(n);
\*   order      fun pair(a, b) { print a; print b; }  pair(n, n + 1);
\*   recursion  fun down(n) { var local = n; if (n > 0) down(n - 1); print local; }
\*              down(n);
\*   caller     fun g() { print x; }  fun f(n) { var x = n; g(); }  f(n);  print "after";
\*   captured   fun outer(a) { fun inner(p) { return p; } return inner; }
\*              var h = outer(n);  fun caller(x) { return h(x + 1); }  print caller(n);
FrameProgram(kind, n) ==
    Program(kind,
      CASE kind = "fib" ->
             << Fun(1, "fib", << "n" >>,
                  << IfStmt(BinaryExpr(Var(11, "n"), Op("Less"), Num(2)),
                            Return(<< Var(12, "n") >>), <<>>),
                     Return(<< BinaryExpr(
                                 Call(Var(13, "fib"), 1,
                                      << BinaryExpr(Var(14, "n"), Op("Minus"), Num(1)) >>),
                                 Op("Plus"),
                                 Call(Var(15, "fib"), 1,
                                      << BinaryExpr(Var(16, "n"), Op("Minus"),
                                                    Num(2)) >>)) >>) >>),
                PrintStmt(Call(Var(17, "fib"), 2, << Num(n) >>)) >>
        [] kind = "order" ->
             << Fun(1, "pair", << "a", "b" >>,
                  << PrintStmt(Var(11, "a")), PrintStmt(Var(12, "b")) >>),
                ExpressionStmt(Call(Var(13, "pair"), 2, << Num(n), Num(n + 1) >>)) >>
        [] kind = "recursion" ->
             << Fun(1, "down", << "n" >>,
                  << Let("local", Var(11, "n")),
                     IfStmt(BinaryExpr(Var(12, "n"), Op("Greater"), Num(0)),
                            ExpressionStmt(
                                Call(Var(13, "down"), 1,
                                     << BinaryExpr(Var(14, "n"), Op("Minus"), Num(1)) >>)),
                            <<>>),
                     PrintStmt(Var(15, "local")) >>),
                ExpressionStmt(Call(Var(16, "down"), 2, << Num(n) >>)) >>
        [] kind = "caller" ->
             << Fun(1, "g", <<>>, << PrintStmt(Var(11, "x")) >>),
                Fun(2, "f", << "n" >>,
                  << Let("x", Var(12, "n")),
                     ExpressionStmt(Call(Var(13, "g"), 1, <<>>)) >>),
                ExpressionStmt(Call(Var(14, "f"), 2, << Num(n) >>)),
                PrintStmt(Str("after")) >>
        [] kind = "captured" ->
             << Fun(1, "outer", << "a" >>,
                  << Fun(2, "inner", << "p" >>, << Return(<< Var(11, "p") >>) >>),
                     Return(<< Var(12, "inner") >>) >>),
                Let("h", Call(Var(13, "outer"), 1, << Num(n) >>)),
                Fun(3, "caller", << "x" >>,
                  << Return(<< Call(Var(14, "h"), 2,
                                    << BinaryExpr(Var(15, "x"), Op("Plus"),
                                                  Num(1)) >>) >>) >>),
                PrintStmt(Call(Var(16, "caller"), 3, << Num(n) >>)) >>)

OtherProgram(kind) ==
    Program("other",
      CASE kind = "return" -> << Return(<< Num(1) >>) >>
        [] kind = "initializer" -> << BlockStmt(<< Let("a", Var(11, "a")) >>) >>
        [] kind = "redeclare" -> << BlockStmt(<< Let("a", Num(1)), Let("a", Num(2)) >>) >>
        [] kind = "clock" -> << PrintStmt(BinaryExpr(Call(Var(11, "clock"), 1, <<>>),
                                                     Op("GreaterEqual"), Num(0))) >>
        [] kind = "enclosing" ->
             << BlockStmt(<< Let("a", Num(1)),
                             BlockStmt(<< PrintStmt(Var(11, "a")) >>) >>),
                PrintStmt(Str("after")) >>)

Programs ==
    {CounterProgram}
    \cup {ShadowProgram(g, l) : g \in {"global", "local"}, l \in {"global", "local"}}
    \cup {BlocksProgram(kind, depth) :
              kind \in {"ok", "error", "undefined", "return"}, depth \in 1..MaxDepth}
    \cup {ReturnProgram(n, v, depth) :
              n \in {ObjectBool(TRUE), ObjectBool(FALSE), ObjectNum(0)},
              v \in {ObjectNum(7), ObjectNil}, depth \in 0..MaxDepth}
    \cup {ArityProgram(callee, argc) :
              callee \in {"f0", "f1", "f2", "A", "B", "C", "clock", "num_to_str"},
              argc \in 0..MaxArgs}
    \cup {InitProgram(body, inherited) :
              body \in {"empty", "bare", "print", "cond", "nested"},
              inherited \in BOOLEAN}
    \cup {LogicProgram(operator, left) :
              operator \in {"Or", "And"},
              left \in {ObjectBool(FALSE), ObjectBool(TRUE), ObjectNil, ObjectNum(0),
                        ObjectNum(1), ObjectStr(""), ObjectStr("a")}}
    \cup {EqProgram(kind, v, w) :
              kind \in {"instances", "classes", "functions", "natives", "methods"},
              v \in 1..2, w \in 1..2}
    \cup {BinaryProgram(c[1], c[2], c[3]) :
              c \in {d \in BinaryOperators \X Operands \X Operands :
                         Exact(d[1], d[2], d[3])}}
    \cup {DeclareProgram(first, second, scope) :
              first \in {"var", "fun", "class"}, second \in {"var", "fun", "class"},
              scope \in {"local", "global"}}
    \cup {DeclareProgram("param", second, "local") :
              second \in {"param", "var", "fun", "class"}}
    \cup {SelfInitProgram(outer, form) :
              outer \in {"global", "local", "none"},
              form \in {"bare", "grouping", "binary", "call"}}
    \cup {ClassProgram(kind) :
              kind \in {"super_greet", "super_receiver", "super_missing",
                        "property_field", "property_override", "property_undefined"}}
    \cup {FailProgram(kind, depth) :
              kind \in {"block", "function", "method", "inherited", "superclass"},
              depth \in 0..MaxDepth}
    \cup {FailProgram("none", 0)}
    \cup {ContextProgram(kind) : kind \in ContextKinds}
    \cup {UnaryProgram(times, operand) :
              times \in 1..2, operand \in Operands \ {ObjectNum(0)}}
    \cup {FrameProgram("fib", n) : n \in 0..MaxFib}
    \cup {FrameProgram(kind, n) :
              kind \in {"order", "recursion", "caller", "captured"}, n \in 0..2}
    \cup {OtherProgram(kind) :
              kind \in {"return", "initializer", "redeclare", "clock", "enclosing"}}

----------------------------------------------------------------------------
(* The run of one program: the resolver pass, then Interpreter::interpret  *)
(* statement by statement.                                                 *)

Init ==
    /\ program \in Programs
    /\ phase = "resolve"
    /\ index = 1
    /\ sys_time \in -1..MaxClock
    /\ locals = EmptyMap
    /\ st = InterpreterNew
    /\ scanner = ScannerNew(<< >>)
    /\ scanned = Scanned("None", ScannerNew(<< >>))
    /\ parsed = Parsed("None", << >>, ParserNew(<< >>))

\* Resolver::resolve over the program, then Resolver::success: the
\* interpreter runs only when the pass ended without an error
ResolveProgram ==
    /\ phase = "resolve"
    /\ LET Then(pass) ==
               /\ locals' = pass.r.locals
               /\ phase' = IF pass.k = "Ok" /\ ResolverSuccess(pass.r)
                           THEN "interpret" ELSE "unresolved"
       IN Then(Resolve(program.statements, 1, ResolverNew))
    /\ UNCHANGED <<program, index, sys_time, st, scanner, scanned, parsed>>

\* one turn of the loop of Interpreter::interpret: execute the next statement;
\* an Err ends the loop with false, a panic ends the process
InterpretStatement ==
    /\ phase = "interpret"
    /\ index <= Len(program.statements)
    /\ LET Then(result) ==
               /\ st' = IF result.k = "RuntimeError"
                        THEN Record(result.s, "failures",
                                    [token |-> result.token, message |-> result.message])
                        ELSE result.s
               /\ phase' = CASE result.k = "Ok" -> "interpret"
                             [] result.k = "Panic" -> "panicked"
                             [] OTHER -> "error"
               /\ index' = IF result.k = "Ok" THEN index + 1 ELSE index
       IN Then(Execute(program.statements[index], st))
    /\ UNCHANGED <<program, sys_time, locals, scanner, scanned, parsed>>

\* the loop of Interpreter::interpret is over: it returns true
InterpretReturn ==
    /\ phase = "interpret"
    /\ index > Len(program.statements)
    /\ phase' = "done"
    /\ UNCHANGED <<program, index, sys_time, locals, st, scanner, scanned, parsed>>

\* interpret has returned and is called again on the same interpreter with
\* the statements of the next line (top-level statements: their resolver pass
\* adds nothing to the side table)
InterpretAgain ==
    /\ phase \in {"done", "error"}
    /\ program.name = "fail"
    /\ program' = LaterProgram
    /\ phase' = "interpret"
    /\ index' = 1
    /\ UNCHANGED <<sys_time, locals, st, scanner, scanned, parsed>>

Next == ResolveProgram \/ InterpretStatement \/ InterpretReturn \/ InterpretAgain

Spec == Init /\ [][Next]_vars

----------------------------------------------------------------------------
(* The run of one source text by main.rs: Scanner::new and                 *)
(* Scanner::tokenize, then Parser::new and Parser::parse.                  *)

MaxSource == 4    \* longest source text

Alphabet == {"/", "*", "\n", "\"", "a", "1", "=", ";", "@"}

Sources == UNION {[1..n -> Alphabet] : n \in 0..MaxSource}

ScanInit ==
    /\ program = Program("source", << >>)
    /\ phase = "scan"
    /\ index = 1
    /\ sys_time = 0
    /\ locals = EmptyMap
    /\ st = InterpreterNew
    /\ scanner \in {ScannerNew(source_code) : source_code \in Sources}
    /\ scanned = Scanned("None", ScannerNew(<< >>))
    /\ parsed = Parsed("None", << >>, ParserNew(<< >>))

Tokenize ==
    /\ phase = "scan"
    /\ LET Then(result) ==
               /\ scanned' = result
               /\ scanner' = result.scanner
       IN Then(tokenize(scanner))
    /\ phase' = "scanned"
    /\ UNCHANGED <<program, index, sys_time, locals, st, parsed>>

\* run, after the scanner: a scan error is reported and the token list is
\* then empty; the tokens are printed, Parser::new takes them and
\* Parser::parse runs.  A panic of the scanner has ended the process.
Parse ==
    /\ phase = "scanned"
    /\ scanned.k \in {"Ok", "Err"}
    /\ parsed' = parse(ParserNew(IF scanned.k = "Ok" THEN scanned.tokens ELSE << >>))
    /\ phase' = "parsed"
    /\ UNCHANGED <<program, index, sys_time, locals, st, scanner, scanned>>

ScanNext == Tokenize \/ Parse

ScanSpec == ScanInit /\ [][ScanNext]_vars

----------------------------------------------------------------------------
(* Environment::assign on its own: a chain of frames as nested blocks and   *)
(* functions build it (frame i encloses frame i + 1; frame 1 is the         *)
(* globals), called on any frame of the chain with any name and value.      *)

MaxFrames == 3    \* longest chain of environments

\* the bindings a frame may hold
Frames == UNION {[names -> {ObjectNum(0), ObjectNum(1)}] : names \in SUBSET {"a", "b"}}

EnvInit ==
    /\ program = Program("assign", << >>)
    /\ phase = "assign"
    /\ index = 1
    /\ sys_time = 0
    /\ locals = EmptyMap
    /\ \E n \in 1..MaxFrames :
          \E chain \in [1..n -> Frames], current \in 1..n :
              st = [InterpreterNew EXCEPT
                      !.envs = [i \in 1..n |->
                                  [values |->
                                     IF i > 1 THEN chain[i]
                                     ELSE [name \in DOMAIN chain[1]
                                                    \cup DOMAIN InterpreterNew.envs[1].values |->
                                             IF name \in DOMAIN chain[1] THEN chain[1][name]
                                             ELSE InterpreterNew.envs[1].values[name]],
                                   enclosing |-> i - 1]],
                      !.environment = current]
    /\ scanner = ScannerNew(<< >>)
    /\ scanned = Scanned("None", ScannerNew(<< >>))
    /\ parsed = Parsed("None", << >>, ParserNew(<< >>))

\* one call of assign on the current frame
EnvironmentAssign ==
    /\ phase = "assign"
    /\ \E lexeme \in {"a", "b", "c"}, value \in {ObjectNum(2), ObjectNil} :
          LET Then(result) ==
                  st' = Record([st EXCEPT !.envs = result.envs], "assigns",
                               [e |-> st.environment, name |-> lexeme, value |-> value,
                                k |-> result.k, before |-> st.envs, after |-> result.envs])
          IN Then(EnvAssign(st.envs, st.environment, Ident(lexeme, 1), value))
    /\ phase' = "assigned"
    /\ UNCHANGED <<program, index, sys_time, locals, scanner, scanned, parsed>>

\* one call of get_at on the current frame
EnvironmentGetAt ==
    /\ phase = "assign"
    /\ \E lexeme \in {"a", "b"}, distance \in 0..(MaxFrames - 1) :
          LET Then(got) ==
                  st' = Record(st, "at",
                               [op |-> "get_at", e |-> st.environment,
                                distance |-> distance, name |-> lexeme,
                                value |-> ObjectNil, k |-> got.k, v |-> got.v,
                                before |-> st.envs, after |-> st.envs])
          IN Then(EnvGetAt(st.envs, st.environment, distance, lexeme))
    /\ phase' = "assigned"
    /\ UNCHANGED <<program, index, sys_time, locals, scanner, scanned, parsed>>

\* one call of assign_at on the current frame
EnvironmentAssignAt ==
    /\ phase = "assign"
    /\ \E lexeme \in {"a", "b"}, distance \in 0..(MaxFrames - 1),
          value \in {ObjectNum(2), ObjectNil} :
          LET Then(done) ==
                  st' = Record([st EXCEPT !.envs = done.envs], "at",
                               [op |-> "assign_at", e |-> st.environment,
                                distance |-> distance, name |-> lexeme,
                                value |-> value, k |-> done.k, v |-> value,
                                before |-> st.envs, after |-> done.envs])
          IN Then(EnvAssignAt(st.envs, st.environment, distance, Ident(lexeme, 1), value))
    /\ phase' = "assigned"
    /\ UNCHANGED <<program, index, sys_time, locals, scanner, scanned, parsed>>

EnvNext == EnvironmentAssign \/ EnvironmentGetAt \/ EnvironmentAssignAt

EnvSpec == EnvInit /\ [][EnvNext]_vars

----------------------------------------------------------------------------
(* Properties of the run.                                                  *)

Finished == phase \in {"done", "error", "panicked"}

\* C1: every block execution that finishes (a Block statement or a function
\* body run through execute_block), normally, by a return carrier or by a
\* runtime error, leaves the current-environment pointer where it was
\* immediately before the block began.
C1_BlockRestoresEnvironment == \A b \in st.h.blocks : b.restored

\* a run in which blocks and function bodies, nested inside one another, have
\* finished in each of the three ways
C1_Witness ==
    /\ \E b \in st.h.blocks : b.via = "block" /\ b.k = "Ok"
    /\ \E b \in st.h.blocks : b.via = "block" /\ b.k = "ReturnValue" /\ b.depth > 2
    /\ \E b \in st.h.blocks : b.via = "call" /\ b.k = "ReturnValue" /\ b.depth > 1
    /\ \E b \in st.h.blocks : b.via = "block" /\ b.k = "RuntimeError" /\ b.depth > 1

\* C2: for every Variable, Assign, This or Super node the resolver recorded at
\* distance d, at every evaluation of the node the name is bound in the frame
\* d parent links above the current frame and the interpreter reads or writes
\* that binding.
C2_ResolverAndInterpreterAgree ==
    \A l \in st.h.lookups :
        l.resolved => (l.bound /\ l.k = "Ok" /\ l.hops = l.distance)

\* C3: successive calls of the closure returned by makeCounter yield 1, 2, 3
\* (the assignment through the closure is seen by its later reads).
C3_CounterCounts ==
    (program.name = "counter" /\ Finished) => st.output = << "1", "2", "3" >>

\* C4: name resolution is static: a reference denotes the same binding at
\* every evaluation (a global stays a global, a local stays at the same
\* number of links), and in the scope-shadowing program the function that
\* reads the global prints the global's value on both calls, whatever the
\* block declares in between.
C4_StaticResolution ==
    /\ \A l1, l2 \in st.h.lookups :
           (l1.id = l2.id /\ l1.k = "Ok" /\ l2.k = "Ok")
               => (l1.global = l2.global /\ (l1.resolved => l1.hops = l2.hops))
    /\ (program.name = "shadow" /\ Finished)
           => /\ phase = "done"
              /\ SubSeq(st.output, 1, 2) =
                     << program.statements[1].initializer[1].value.x,
                        program.statements[1].initializer[1].value.x >>

\* the scope-shadowing program has run to its end, the block having
\* declared a variable of another value between the two calls
C4_Witness ==
    /\ program.name = "shadow" /\ phase = "done"
    /\ program.statements[2].statements[3].initializer[1].value.x
           # program.statements[1].initializer[1].value.x
    /\ Len(st.output) = 3
    /\ \E l \in st.h.lookups : l.id = 11 /\ l.k = "Ok" /\ l.global /\ ~l.resolved

\* C5: a return executed at any depth inside a function body ends the call:
\* no later statement of the body starts, the carrier stops at the nearest
\* call (no call yields a carrier), a non-initializer call yields the carried
\* value, and a body that ends without a return yields nil.
C5_ReturnEndsCall ==
    /\ ~st.h.after_return
    /\ \A c \in st.h.calls :
           /\ c.k # "ReturnValue"
           /\ (c.returned /\ ~c.is_initializer) => (c.k = "Ok" /\ c.v = c.carried)
           /\ (~c.returned /\ ~c.is_initializer /\ c.k = "Ok") => c.v = ObjectNil
    /\ \A a \in st.h.arity : a.k # "ReturnValue"

\* a call returned 7 from inside a while, an if and two or more blocks, with a
\* statement after the return, and another call ran to the end of its body
C5_Witness ==
    /\ program.name = "return" /\ phase = "done"
    /\ \E c \in st.h.calls : c.returned /\ ~c.is_initializer /\ c.v = ObjectNum(7)
    /\ \E b \in st.h.blocks : b.via = "block" /\ b.k = "ReturnValue" /\ b.depth > 2
    /\ \E c \in st.h.calls : ~c.returned /\ ~c.is_initializer /\ c.v = ObjectNil
    /\ st.output = << "7", "g", "nil" >>

\* the arity the claim gives each callable: a function's parameter count, the
\* arity of the init found on the class or an ancestor (else 0), clock 0,
\* num_to_str 1
C6_Arity(callee) ==
    CASE callee.t = "Func" -> Len(st.functions[callee.v].declaration.params)
      [] callee.t = "Class" ->
           LET initializer == ClassFindMethod(st.classes, callee.v, "init")
           IN IF initializer = <<>> THEN 0
              ELSE Len(st.functions[initializer[1].v].declaration.params)
      [] callee.t = "Native" -> IF st.natives[callee.v] = "NativeClock" THEN 0 ELSE 1

\* C6: a call of a function, class or native with an argument count other
\* than the callee's arity yields a runtime error at the closing paren, and
\* the callee is not invoked: the interpreter and its heap are as they were
\* after the arguments were evaluated (no frame, no instance, no output).
C6_ArityMismatchIsAnError ==
    \A a \in st.h.arity :
        Len(a.arguments) # C6_Arity(a.callee)
            => /\ a.k = "RuntimeError"
               /\ a.token.token_type = "RightParen" /\ a.token.line = 7
               /\ a.untouched /\ a.created = 0

\* a class whose init is inherited has been called with too many arguments,
\* and the run went no further
C6_Witness ==
    /\ program.name = "arity" /\ phase = "error"
    /\ \E a \in st.h.arity :
           /\ a.callee.t = "Class"
           /\ st.classes[a.callee.v].superclass # <<>>
           /\ C6_Arity(a.callee) = 1
           /\ Len(a.arguments) > 1
    /\ st.instances = <<>> /\ st.output = <<>>

\* C7: a class call that does not fail creates one fresh instance of the
\* class and yields it, whatever the initializer returned; when the class or
\* an ancestor defines init, that method ran bound to the instance with the
\* call's arguments, and otherwise no initializer ran for it.
C7_ClassCallYieldsInstance ==
    \A a \in st.h.arity :
        (a.callee.t = "Class" /\ a.k = "Ok")
            => /\ a.v = ObjectInstance(a.instances + 1)
               /\ a.created = 1
               /\ st.instances[a.v.v].klass = a.callee.v
               /\ (ClassFindMethod(st.classes, a.callee.v, "init") # <<>>)
                      <=> (\E c \in st.h.calls :
                               /\ c.is_initializer
                               /\ c.this = a.v
                               /\ c.arguments = a.arguments)

\* a class with an inherited init that executes a bare return has been
\* called: the initializer's own result was nil
C7_Witness ==
    \E a \in st.h.arity :
        /\ a.callee.t = "Class" /\ a.k = "Ok"
        /\ st.classes[a.callee.v].superclass # <<>>
        /\ \E c \in st.h.calls :
               /\ c.is_initializer /\ c.this = a.v /\ c.arguments = a.arguments
               /\ c.returned /\ c.v = ObjectNil

\* C8: an initializer invoked directly as a bound method on an instance
\* yields that instance, both when its body runs to its end and when it
\* executes a bare return.
C8_InitializerYieldsInstance ==
    \A a \in st.h.arity :
        (a.callee.t = "Func" /\ st.functions[a.callee.v].is_initializer /\ a.k = "Ok")
            => a.v = st.envs[st.functions[a.callee.v].closure].values["this"]

\* what the claim calls falsy: false and nil, nothing else
C9_Falsy(object) == object = ObjectBool(FALSE) \/ object = ObjectNil

\* C9: in `a or b` b is evaluated iff a is falsy, in `a and b` iff a is
\* truthy; when b is not evaluated nothing changes and the result is a,
\* otherwise the result is the value of b (and b's assignment is seen).
C9_ShortCircuit ==
    /\ \A e \in st.h.logical :
           /\ e.right_evaluated = (IF e.operator = "Or" THEN C9_Falsy(e.left)
                                   ELSE ~C9_Falsy(e.left))
           /\ ~e.right_evaluated => (e.untouched /\ e.k = "Ok" /\ e.v = e.left)
    /\ (program.name = "logic" /\ Finished)
           => /\ phase = "done"
              /\ \A e \in st.h.logical :
                     /\ e.untouched = ~e.right_evaluated
                     /\ e.right_evaluated => e.v = ObjectNum(1)
                     /\ st.output = << ObjectDisplay(st, e.v),
                                       IF e.right_evaluated THEN "1" ELSE "0" >>

\* `0 or (n = 1)` has yielded 0 and left n alone, the number 0 being truthy
C9_Witness ==
    /\ program.name = "logic" /\ phase = "done"
    /\ \E e \in st.h.logical :
           e.operator = "Or" /\ e.left = ObjectNum(0) /\ ~e.right_evaluated
    /\ st.output = << "0", "0" >>

\* C10: == on two functions, classes, instances or natives is true iff they
\* are the same object.
C10_IdentityEquality ==
    \A q \in st.h.equalities :
        q.left.t \in {"Func", "Class", "Instance", "Native"}
            => (q.result <=> (q.left.t = q.right.t /\ q.left.v = q.right.v))

Comparisons == {"Greater", "GreaterEqual", "Less", "LessEqual"}

\* C11: a comparison (<, <=, >, >=) of a number with a non-number yields a
\* runtime error, never the value false.
C11_MixedComparisonIsAnError ==
    \A b \in st.h.binaries :
        (b.operator.token_type \in Comparisons
         /\ (b.left.t = "Num") # (b.right.t = "Num"))
            => b.k = "RuntimeError"

\* the usual comparison of two numbers
C12_Compare(operator, m, n) ==
    CASE operator = "Greater" -> m > n
      [] operator = "GreaterEqual" -> m >= n
      [] operator = "Less" -> m < n
      [] operator = "LessEqual" -> m <= n

\* C12: each of <, <=, >, >= yields the numeric comparison on two numbers and
\* false on every other pair of operands, (nil, nil), two strings and two
\* booleans included.
C12_OrderingOnlyOnNumbers ==
    \A b \in st.h.binaries :
        b.operator.token_type \in Comparisons
            => /\ b.k = "Ok"
               /\ b.v = ObjectBool(IF b.left.t = "Num" /\ b.right.t = "Num"
                                   THEN C12_Compare(b.operator.token_type,
                                                    b.left.v, b.right.v)
                                   ELSE FALSE)

\* C13: + adds two numbers and concatenates two strings; -, *, / are the
\* numeric operations on two numbers; every other combination of operand
\* types is a runtime error on the operator token and never a value; / by
\* zero is a runtime error on the operator token with a message of its own.
C13_Arithmetic ==
    \A b \in st.h.binaries :
        LET op == b.operator.token_type
            numbers == b.left.t = "Num" /\ b.right.t = "Num"
            strings == b.left.t = "Str" /\ b.right.t = "Str"
        IN op \in {"Plus", "Minus", "Star", "Slash"}
               => CASE numbers /\ op = "Plus" ->
                         b.k = "Ok" /\ b.v = ObjectNum(b.left.v + b.right.v)
                    [] numbers /\ op = "Minus" ->
                         b.k = "Ok" /\ b.v = ObjectNum(b.left.v - b.right.v)
                    [] numbers /\ op = "Star" ->
                         b.k = "Ok" /\ b.v = ObjectNum(b.left.v * b.right.v)
                    [] numbers /\ op = "Slash" /\ b.right.v # 0 ->
                         b.k = "Ok" /\ b.v.t = "Num" /\ b.v.v * b.right.v = b.left.v
                    [] numbers /\ op = "Slash" /\ b.right.v = 0 ->
                         /\ b.k = "RuntimeError" /\ b.token = b.operator
                         /\ b.message = "DivByZeroError"
                    [] strings /\ op = "Plus" ->
                         b.k = "Ok" /\ b.v = ObjectStr(b.left.x \o b.right.x)
                    [] OTHER ->
                         /\ b.k = "RuntimeError" /\ b.token = b.operator
                         /\ b.message = "ArithmeticError"

\* a string minus a string has ended in the type error, on the operator token
C13_Witness ==
    /\ program.name = "binary" /\ phase = "error" /\ st.output = <<>>
    /\ \E b \in st.h.binaries :
           /\ b.operator = Token("Minus", "Minus", 5)
           /\ b.left = ObjectStr("a") /\ b.right = ObjectStr("b")
           /\ b.k = "RuntimeError" /\ b.token = b.operator
           /\ b.message = "ArithmeticError"

\* the number of newline characters of a source text
RECURSIVE Newlines(_)
Newlines(chars) ==
    IF chars = << >> THEN 0
    ELSE (IF Head(chars) = "\n" THEN 1 ELSE 0) + Newlines(Tail(chars))

\* C14: for every source, scanning ends with an error result or with a token
\* list that ends in exactly one EOF token, no EOF before it, whose lexeme is
\* empty and whose line is 1 + the number of newlines of the source
C14_ScanEndsInOneEOF ==
    phase = "scanned" =>
        \/ scanned.k = "Err"
        \/ /\ scanned.k = "Ok"
           /\ Len(scanned.tokens) >= 1
           /\ \A i \in 1..Len(scanned.tokens) :
                  (scanned.tokens[i].token_type = "EOF") = (i = Len(scanned.tokens))
           /\ scanned.tokens[Len(scanned.tokens)].lexeme = ""
           /\ scanned.tokens[Len(scanned.tokens)].line =
                  1 + Newlines(scanner.source_code)

\* C15: a name declared twice in one local scope (by var, fun, class or as a
\* parameter) makes the resolver report failure, and the program is not run;
\* declared twice at the top level it is no error, and once both definitions
\* have run the name holds the second value
C15_Redeclaration ==
    program.name = "declare" =>
        LET success == ResolverSuccess(Resolve(program.statements, 1, ResolverNew).r)
            second == program.statements[2]
            a == st.envs[st.globals].values["a"]
        IN IF Len(program.statements) = 2
           THEN /\ success
                /\ phase \in {"resolve", "interpret", "done"}
                /\ phase = "done" =>
                       a = CASE second.s = "Var" -> ObjectNum(2)
                             [] second.s = "Function" -> ObjectFunc(Len(st.functions))
                             [] second.s = "Class" -> ObjectClass(Len(st.classes))
           ELSE /\ ~success
                /\ phase \in {"resolve", "unresolved"}
                /\ st = InterpreterNew

C15_Witness ==
    /\ program = DeclareProgram("var", "fun", "local")
    /\ phase = "unresolved"
    /\ ~ResolverSuccess(Resolve(program.statements, 1, ResolverNew).r)

C17_SuperDispatch ==
    Finished =>
        /\ program.name \in {"super_greet", "super_receiver"} =>
               /\ phase = "done"
               /\ st.output = << "A", "B", "after" >>
        /\ program.name = "super_missing" =>
               /\ phase = "error"
               /\ st.output = << >>
               /\ st.h.failures = {[token |-> Ident("x", 2),
                                    message |-> "Undefined property 'x'."]}

\* C18: a field of the instance wins over a method of its class or of an
\* ancestor; otherwise the first method found from the class upward is
\* returned, bound to the instance; otherwise the get is an undefined-property
\* error; a set writes a field of that one instance and leaves every method
\* table as it was
C18_PropertyOrder ==
    Finished =>
        /\ program.name = "property_field" =>
               /\ phase = "done"
               /\ st.output = << "1", "A.n", "3", "A.n" >>
               /\ st.instances[1].fields = Insert(Insert(EmptyMap, "n", ObjectNum(1)),
                                                  "m", ObjectNum(3))
               /\ st.instances[2].fields = EmptyMap
               /\ DOMAIN st.classes[1].methods = {"n"}
               /\ st.classes[1].methods["n"].t = "Func"
               /\ DOMAIN st.classes[2].methods = {}
               /\ LET g == st.envs[st.globals].values["g"]
                  IN /\ g.t = "Func"
                     /\ st.functions[g.v].declaration =
                            st.functions[st.classes[1].methods["n"].v].declaration
                     /\ st.envs[st.functions[g.v].closure].values["this"] = ObjectInstance(2)
        /\ program.name = "property_override" =>
               /\ phase = "done"
               /\ st.output = << "B.n", "A.n" >>
        /\ program.name = "property_undefined" =>
               /\ phase = "error"
               /\ st.output = << >>
               /\ st.h.failures = {[token |-> Ident("m", 6),
                                    message |-> "Undefined propertiry 'm'."]}
               /\ st.instances[1].fields = Insert(EmptyMap, "m", ObjectNum(2))
               /\ st.instances[2].fields = EmptyMap

C18_Witness ==
    /\ program.name = "property_field"
    /\ phase = "done"
    /\ st.output = << "1", "A.n", "3", "A.n" >>
    /\ "n" \in DOMAIN st.instances[1].fields
    /\ "n" \in DOMAIN st.classes[1].methods

\* C19: the pipeline fails fast: the parser is run only on a source the
\* scanner accepted, and after a resolver error no statement of the program
\* is executed
C19_FailFast ==
    /\ parsed.k # "None" => scanned.k = "Ok"
    /\ phase = "unresolved" => st = InterpreterNew

\* the frames of the chain that starts at frame e and hold the name
C20_Holders(envs, e, name) ==
    {i \in 1..Len(envs) : Hops(envs, e, i) >= 0 /\ name \in DOMAIN envs[i].values}

\* C20: assign changes exactly the binding of the name in the innermost frame
\* of the chain that holds it, and leaves every other frame and name as they
\* were; when no frame of the chain holds the name it returns an error,
\* changes no frame and creates no binding
C20_AssignChangesOneBinding ==
    \A a \in st.h.assigns :
        LET holders == C20_Holders(a.before, a.e, a.name)
            target == CHOOSE i \in holders :
                          \A j \in holders : Hops(a.before, a.e, i) <= Hops(a.before, a.e, j)
        IN /\ Len(a.after) = Len(a.before)
           /\ \A i \in 1..Len(a.before) :
                  /\ a.after[i].enclosing = a.before[i].enclosing
                  /\ DOMAIN a.after[i].values = DOMAIN a.before[i].values
                  /\ \A name \in DOMAIN a.before[i].values :
                         a.after[i].values[name] =
                             IF holders # {} /\ i = target /\ name = a.name
                             THEN a.value ELSE a.before[i].values[name]
           /\ a.k = IF holders = {} THEN "RuntimeError" ELSE "Ok"

\* an assign from the innermost of three frames that reaches the middle one,
\* past a binding of the same name in the globals
C20_Witness ==
    \E a \in st.h.assigns :
        /\ a.e = 3
        /\ a.name = "a"
        /\ C20_Holders(a.before, a.e, a.name) = {1, 2}
        /\ a.k = "Ok"
        /\ a.after[2].values["a"] = a.value
        /\ a.after[1].values["a"] = a.before[1].values["a"]

\* C21: in every reachable interpreter state the parent links of the
\* environments form an acyclic chain: from any frame, following `enclosing`
\* reaches the global frame, which has no parent, in finitely many steps
C21_AcyclicChain ==
    /\ st.envs[st.globals].enclosing = 0
    /\ \A e \in 1..Len(st.envs) :
           /\ st.envs[e].enclosing < e
           /\ Hops(st.envs, e, st.globals) >= 0

\* a heap that holds a frame of a method binding (`this`), a frame of a class
\* declaration with a superclass (`super`), a frame of a call and a frame
\* three links away from the globals
C21_Witness ==
    /\ \E e \in 1..Len(st.envs) : "this" \in DOMAIN st.envs[e].values
    /\ \E e \in 1..Len(st.envs) : "super" \in DOMAIN st.envs[e].values
    /\ \E e \in 1..Len(st.envs) : Hops(st.envs, e, st.globals) >= 3
    /\ \E b \in st.h.blocks : b.via = "call"

\* C22: get_at(distance, name) returns the value bound to name in the frame
\* exactly `distance` parent links above the frame it is called on, whatever
\* nearer frames bind; assign_at(distance, name, value) writes the binding in
\* that frame and in no other
C22_AtDistance ==
    \A c \in st.h.at :
        LET target == Ancestor(c.before, c.e, c.distance)
        IN (target # 0 /\ c.name \in DOMAIN c.before[target].values) =>
              /\ c.k = "Ok"
              /\ c.op = "get_at" => c.v = c.before[target].values[c.name]
              /\ c.op = "assign_at" =>
                     c.after = [c.before EXCEPT ![target].values[c.name] = c.value]

RECURSIVE Fib(_)
\* the Fibonacci numbers: 0, 1, 1, 2, 3, 5, ...
Fib(n) == IF n < 2 THEN n ELSE Fib(n - 1) + Fib(n - 2)

\* the lines `down(n)` prints: local of the innermost activation first
C23_Locals(n) == [i \in 1..(n + 1) |-> NumToString(i - 1)]

\* C23: every call allocates a frame whose parent is the function's captured
\* environment, not the caller's, and binds the parameters to the arguments in
\* declaration order; an activation changes no frame outside the chain of its
\* own closure, recursive activations keep their own parameters and locals
\* (fib(n) prints the n-th Fibonacci number), and a callee cannot read its
\* caller's locals
C23_CallFrames ==
    /\ \A c \in st.h.activations :
           /\ c.frame \notin {c.caller, c.closure}
           /\ c.parent = c.closure
           /\ \A i \in 1..Len(c.params) : c.values[c.params[i].lexeme] = c.arguments[i]
           /\ \A e \in c.changed : Hops(st.envs, c.closure, e) >= 0
    /\ \A c, d \in st.h.activations : c.frame = d.frame => c = d
    /\ \A n \in 0..MaxFib :
           program = FrameProgram("fib", n) /\ phase = "done" =>
               st.output = << NumToString(Fib(n)) >>
    /\ \A n \in 0..2 :
           /\ program = FrameProgram("recursion", n) /\ phase = "done" =>
                  st.output = C23_Locals(n)
           /\ program = FrameProgram("order", n) /\ phase = "done" =>
                  st.output = << NumToString(n), NumToString(n + 1) >>
           /\ program = FrameProgram("captured", n) /\ phase = "done" =>
                  st.output = << NumToString(n + 1) >>
           /\ program = FrameProgram("caller", n) /\ phase \notin {"resolve", "interpret"} =>
                  /\ phase = "error"
                  /\ index = 3
                  /\ st.output = << >>
                  /\ \E failure \in st.h.failures : failure.token.lexeme = "x"

\* fib(MaxFib) has printed its number from activations that each kept their
\* own n, one of them called from another
C23_Witness ==
    /\ program = FrameProgram("fib", MaxFib)
    /\ phase = "done"
    /\ st.output = << NumToString(Fib(MaxFib)) >>
    /\ \E c, d \in st.h.activations :
           c.caller = d.frame /\ c.values["n"] # d.values["n"] /\ c.parent = st.globals

\* a call whose frame hangs under the captured environment while the caller
\* is another function's activation
C23_WitnessCaptured ==
    \E c \in st.h.activations :
        c.closure # c.caller /\ c.closure # st.globals /\ c.caller # st.globals

\* C24: unary minus applied to a number yields its negation, so that negating
\* twice yields the number itself; applied to any other value it raises a
\* runtime error at the operator and produces no value
C24_MinusRequiresNumber ==
    \A times \in 1..2, operand \in Operands \ {ObjectNum(0)} :
        program = UnaryProgram(times, operand) /\ phase \notin {"resolve", "interpret"} =>
            IF operand.t = "Num"
            THEN /\ phase = "done"
                 /\ st.output = << NumToString(IF times = 1 THEN 0 - operand.v
                                                ELSE operand.v), "after" >>
            ELSE /\ phase = "error"
                 /\ st.output = << >>
                 /\ \E failure \in st.h.failures : failure.token.token_type = "Minus"

\* C25: on a scan error the scanner goes on past the faulty character, so
\* that it fails only once the whole source has been scanned and an error
\* later in the source is recorded as well
C25_ScanErrorsAccumulate ==
    scanned.k = "Err" =>
        /\ is_at_end(scanned.scanner)
        /\ \A i \in 1..Len(scanned.scanner.source_code) :
               scanned.scanner.source_code[i] = "@" => i <= scanned.scanner.current

\* the token types and lexemes of a scan
C26_Lexemes(result) ==
    [i \in 1..Len(result.tokens) |->
        << result.tokens[i].token_type, result.tokens[i].lexeme >>]

\* C26: a source that opens with `/*` is scanned as the source after the next
\* `*/` is (no token comes from the comment, whatever it holds), and when no
\* `*/` follows the scan ends with a scanner error
C26_BlockComment ==
    LET source_code == scanner.source_code
        closes == {q \in 3..(Len(source_code) - 1) :
                       source_code[q] = "*" /\ source_code[q + 1] = "/"}
        Resumed(q) ==
            LET Same(rest) == /\ scanned.k = rest.k
                              /\ C26_Lexemes(scanned) = C26_Lexemes(rest)
            IN Same(tokenize(ScannerNew(SubSeq(source_code, q + 2, Len(source_code)))))
    IN (scanned.k # "None" /\ Len(source_code) >= 2
            /\ source_code[1] = "/" /\ source_code[2] = "*") =>
           IF closes = {} THEN scanned.k = "Err"
           ELSE Resumed(CHOOSE q \in closes : \A r \in closes : q <= r)

\* C27: after a parse error in one declaration the parser discards tokens up
\* to the next statement boundary and resumes with the declarations that
\* follow, so that a parse that returns has gone through the whole token list
\* and has reported the errors of all its declarations
C27_ParserResumes ==
    parsed.k \in {"Ok", "Err"} => ParserIsAtEnd(parsed.p)

\* C28: when parse() has finished, Parser::success() is false exactly when a
\* parse error was reported during the parse, whichever rule reported it; an
\* invalid assignment target is reported without ending the parse
C28_SuccessIffNoError ==
    parsed.k \in {"Ok", "Err"} =>
        /\ parsed.p.had_error <=> parsed.p.reported # << >>
        /\ parsed.k = "Err" => parsed.p.reported # << >>
        /\ \A i \in 1..Len(parsed.p.reported) :
               (parsed.p.reported[i].message = "Invalid assignment target"
                    /\ i = Len(parsed.p.reported)) => parsed.k = "Ok"

\* C29: a return outside any function, a return of a value from an
\* initializer, `this` outside a class, `super` outside a class or in a class
\* without superclass, and a class that names itself as superclass each make
\* Resolver::success() false without ending the pass: the statements that
\* follow are still resolved, the function and class context is back to what
\* it was when a function or class body ends, and uses that keep the rules
\* are not flagged
C29_ContextChecks ==
    \A kind \in ContextKinds :
        program = ContextProgram(kind) =>
            LET Checked(pass) ==
                    /\ pass.k = "Ok"
                    /\ ResolverSuccess(pass.r) <=> kind \notin ContextErrors
                    /\ pass.r.current_function = "None"
                    /\ pass.r.current_class = "None"
                    /\ pass.r.scopes = << >>
                    /\ 99 \in DOMAIN pass.r.locals /\ pass.r.locals[99] = 0
                    /\ phase # "resolve" =>
                           /\ locals = pass.r.locals
                           /\ phase = "unresolved" <=> kind \in ContextErrors
                    /\ kind \in ContextErrors => st = InterpreterNew
            IN Checked(Resolve(program.statements, 1, ResolverNew))

\* a value returned from an initializer after a nested function has ended:
\* flagged, and the block behind the class is resolved all the same
C29_Witness ==
    /\ program = ContextProgram("after_nested_function")
    /\ phase = "unresolved"
    /\ 99 \in DOMAIN locals
    /\ ~ResolverSuccess(Resolve(program.statements, 1, ResolverNew).r)

\* C30: whenever interpret has returned, with true or with false after a
\* runtime error at any depth of blocks, function calls, method calls or a
\* class declaration with a superclass, the current environment is the
\* globals; the statements behind the failing one have not run, the globals
\* defined before it are still bound, and a later call of interpret on the
\* same interpreter defines and reads its variables in the globals
C30_ReturnsAtGlobals ==
    /\ phase \in {"done", "error"} => st.environment = st.globals
    /\ (program.name = "fail" /\ phase \notin {"resolve", "interpret"}) =>
           /\ phase = IF program = FailProgram("none", 0) THEN "done" ELSE "error"
           /\ phase = "error" =>
                  /\ index = Len(program.statements) - 1
                  /\ st.output = << >>
                  /\ st.h.failures # {}
           /\ st.envs[st.globals].values["g"] = ObjectNum(1)
    /\ (program = LaterProgram /\ phase # "interpret") =>
           /\ phase = "done"
           /\ st.envs[st.globals].values["later"] = ObjectNum(1)
           /\ st.output[Len(st.output)] = "1"

\* a later call of interpret has defined and read a global after an earlier
\* call failed inside a method called on an instance of a subclass
C30_Witness ==
    /\ program = LaterProgram
    /\ phase = "done"
    /\ st.classes # << >>
    /\ \E c \in 1..Len(st.classes) : st.classes[c].superclass # << >>
    /\ \E failure \in st.h.failures : failure.token.lexeme = "missing"
    /\ \E b \in st.h.blocks : b.via = "call" /\ b.k = "RuntimeError"
    /\ "later" \in DOMAIN st.envs[st.globals].values


====
